---- MODULE Spec2Model ----
(***************************************************************************)
(* State-machine model of the data-fetch orchestration and the pure        *)
(* helpers of the sl-dashboard frontend:                                   *)
(*   ForecastDashboard  (frontend/src/components/ForecastDashboard.jsx)    *)
(*   CustomerPlanner    (frontend/src/components/CustomerPlanner.jsx and   *)
(*                       its /series + /predict variant, unnamed/part_001) *)
(*   QuickHorizons, BuyerForecast, monthsBetween   (unnamed/part_002)      *)
(* Each component has its own specification (SpecFD, SpecCP, SpecQH,       *)
(* SpecBF, SpecPrefs for the persisted toggles); SpecPage mounts one page  *)
(* at a time.  The pure functions are exercised by SpecPure, the chart     *)
(* series by SpecChart, the QuickHorizons card by SpecDelta and the        *)
(* horizon resolver of onSearch by SpecResolver.  useApi and the rows of   *)
(* ModelEval (unnamed/part_003) have SpecUA and SpecEval.                  *)
(***************************************************************************)
EXTENDS Integers, Sequences, FiniteSets, TLC

----------------------------------------------------------------------------
(* JavaScript values.  A value is a record with a type tag, so that null,  *)
(* undefined, NaN, the infinities, strings and numbers can be compared.    *)

Num(n) == [t |-> "num", v |-> n]

Null == [t |-> "null", v |-> 0]

Undef == [t |-> "undefined", v |-> 0]

NaN == [t |-> "nan", v |-> 0]

PosInf == [t |-> "inf", v |-> 1]

NegInf == [t |-> "inf", v |-> -1]

Str(n) == [t |-> "string", v |-> n]

\* Number.isFinite(x): true only for values of type number that are neither
\* NaN nor infinite; no coercion of null, undefined or strings.
IsFinite(x) == x.t = "num"

\* x == null / x != null (loose equality: null and undefined)
IsNullish(x) == x.t \in {"null", "undefined"}

\* a ?? b
Coalesce(a, b) == IF IsNullish(a) THEN b ELSE a

Abs(n) == IF n < 0 THEN -n ELSE n

Max(a, b) == IF a >= b THEN a ELSE b

----------------------------------------------------------------------------
(* Bounds of the model *)

\* number of request batches (effect runs that issue requests) per component
MaxReq == 3

\* number of regions of REGION_OPTIONS the user picks from
NumRegions == 2

\* largest month distance given to the horizon resolver
MaxMonths == 12

\* number of years of the dates given to monthsBetween
NumYears == 2

\* number of Search / Use-this-date clicks in BuyerForecast
MaxClicks == 2

----------------------------------------------------------------------------
VARIABLES
  \* ---- ForecastDashboard ----
  fd_optionsPc,    \* options effect: "pending" | "done"
  fd_commodities,  \* state commodities
  fd_commodity,    \* state commodity ("" until options are loaded)
  fd_region,       \* state region
  fd_history,      \* state history
  fd_kpi,          \* state kpi
  latestReq,       \* latestReq.current
  fd_inflight,     \* async bodies of the load effect that still await a request
  fd_kpiWrite,     \* history variable: last setKpi, [by |-> reqId, at |-> latestReq then]
  fd_histWrite,    \* history variable: last setHistory, same shape
  fd_outcome,      \* history variable: outcome of the latest batch's two requests
  fd_dropped,      \* history variable: stale arrivals discarded so far
  \* ---- CustomerPlanner ----
  cp_variant,      \* "bundle": CustomerPlanner.jsx; "predict": the /series + /predict variant
  cp_commodity,    \* state commodity
  cp_hist,         \* state hist
  cp_bundle,       \* state bundle
  cp_loading,      \* state loading
  cp_inflight,     \* async bodies of the load effect that still await a request
  cp_issued,       \* history variable: number of batches issued so far
  cp_write,        \* history variable: last write made after an await, [by, at]
  cp_outcome,      \* history variable: what the latest batch's requests returned
  \* ---- QuickHorizons ----
  qh_variant,      \* "predict": /series + /predict per horizon; "horizons": /api/horizons first
  qh_mounted,      \* the component is mounted
  qh_commodity,    \* prop commodity
  qh_rows,         \* state rows
  qh_meta,         \* state meta
  qh_loading,      \* state loading
  qh_err,          \* state err
  qh_runs,         \* calls of go() that still await a request
  qh_issued,       \* history variable: number of calls of go() so far
  qh_outcome,      \* history variable: how the latest call of go() ended
  \* ---- BuyerForecast ----
  bf_tzWest,       \* environment: the browser's time zone is west of UTC
  bf_commodity,    \* state commodity
  bf_buyDate,      \* state buyDate (<<>> is the empty string)
  bf_current,      \* state current
  bf_forecast,     \* state forecast
  bf_history,      \* state history
  bf_loading,      \* state loading
  bf_err,          \* state err
  bf_histRuns,     \* history effect runs that still await /series
  bf_histIssued,   \* history variable: number of history effect runs so far
  bf_searches,     \* calls of onSearch that still await /predict
  bf_timers,       \* setTimeout(onSearch, 0) callbacks not yet run, oldest first
  bf_clicks,       \* history variable: number of Search / Use-this-date clicks so far
  bf_track,        \* history variable: calls of onSearch so far, and whether Reset came after the last
  \* ---- pure functions ----
  p_op,            \* the function applied
  p_in,            \* its arguments
  p_done,          \* it has been applied
  p_out,           \* its result
  \* ---- ForecastDashboard preferences ----
  pr_pc,           \* "mount": the first render is committed, its effects have not run
  pr_state,        \* state chartType, showMA, changeView
  pr_deps,         \* the dependencies the save effect last ran with
  pr_storage,      \* localStorage items chartType, showMA, changeView
  pr_session0,     \* history variable: the storage found at mount
  pr_toggles,      \* history variable: number of changes made by the user
  \* ---- useApi of ModelEval ----
  ua_commodity,    \* the commodity in the url; "off" when the hook is not mounted
  ua_data,         \* state data
  ua_loading,      \* state loading
  ua_error,        \* state error
  ua_reqs,         \* fetches whose promise has not settled
  ua_issued        \* history variable: number of effect runs so far

fdVars == <<fd_optionsPc, fd_commodities, fd_commodity, fd_region, fd_history,
            fd_kpi, latestReq, fd_inflight, fd_kpiWrite, fd_histWrite,
            fd_outcome, fd_dropped>>

cpVars == <<cp_variant, cp_commodity, cp_hist, cp_bundle, cp_loading, cp_inflight,
            cp_issued, cp_write, cp_outcome>>

qhVars == <<qh_variant, qh_mounted, qh_commodity, qh_rows, qh_meta, qh_loading,
            qh_err, qh_runs, qh_issued, qh_outcome>>

bfVars == <<bf_tzWest, bf_commodity, bf_buyDate, bf_current, bf_forecast, bf_history,
            bf_loading, bf_err, bf_histRuns, bf_histIssued, bf_searches, bf_timers,
            bf_clicks, bf_track>>

pVars == <<p_op, p_in, p_done, p_out>>

prVars == <<pr_pc, pr_state, pr_deps, pr_storage, pr_session0, pr_toggles>>

uaVars == <<ua_commodity, ua_data, ua_loading, ua_error, ua_reqs, ua_issued>>

vars == <<fdVars, cpVars, qhVars, bfVars, pVars, prVars, uaVars>>

\* a step of one component leaves the other components alone
FDOnly == UNCHANGED <<cpVars, qhVars, bfVars, pVars, prVars, uaVars>>

CPOnly == UNCHANGED <<fdVars, qhVars, bfVars, pVars, prVars, uaVars>>

QHOnly == UNCHANGED <<fdVars, cpVars, bfVars, pVars, prVars, uaVars>>

BFOnly == UNCHANGED <<fdVars, cpVars, qhVars, pVars, prVars, uaVars>>

POnly == UNCHANGED <<fdVars, cpVars, qhVars, bfVars, prVars, uaVars>>

PROnly == UNCHANGED <<fdVars, cpVars, qhVars, bfVars, pVars, uaVars>>

UAOnly == UNCHANGED <<fdVars, cpVars, qhVars, bfVars, pVars, prVars>>

\* a component that is not mounted
FDOff ==
  /\ fd_optionsPc = "off"
  /\ fd_commodities = <<>>
  /\ fd_commodity = ""
  /\ fd_region = ""
  /\ fd_history = <<>>
  /\ fd_kpi = <<>>
  /\ latestReq = 0
  /\ fd_inflight = {}
  /\ fd_kpiWrite = <<>>
  /\ fd_histWrite = <<>>
  /\ fd_outcome = <<>>
  /\ fd_dropped = 0

CPOff ==
  /\ cp_variant = "off"
  /\ cp_commodity = ""
  /\ cp_hist = <<>>
  /\ cp_bundle = <<>>
  /\ cp_loading = FALSE
  /\ cp_inflight = {}
  /\ cp_issued = 0
  /\ cp_write = <<>>
  /\ cp_outcome = <<>>

QHOff ==
  /\ qh_variant = "off"
  /\ qh_mounted = FALSE
  /\ qh_commodity = ""
  /\ qh_rows = <<>>
  /\ qh_meta = <<>>
  /\ qh_loading = FALSE
  /\ qh_err = <<>>
  /\ qh_runs = {}
  /\ qh_issued = 0
  /\ qh_outcome = <<>>

BFOff ==
  /\ bf_tzWest = FALSE
  /\ bf_commodity = ""
  /\ bf_buyDate = <<>>
  /\ bf_current = <<>>
  /\ bf_forecast = <<>>
  /\ bf_history = <<>>
  /\ bf_loading = FALSE
  /\ bf_err = <<>>
  /\ bf_histRuns = {}
  /\ bf_histIssued = 0
  /\ bf_searches = {}
  /\ bf_timers = <<>>
  /\ bf_clicks = 0
  /\ bf_track = [started |-> 0, reset |-> FALSE]

POff ==
  /\ p_op = "off"
  /\ p_in = <<>>
  /\ p_done = FALSE
  /\ p_out = <<>>

PROff ==
  /\ pr_pc = "off"
  /\ pr_state = <<>>
  /\ pr_deps = <<>>
  /\ pr_storage = <<>>
  /\ pr_session0 = <<>>
  /\ pr_toggles = 0

UAOff ==
  /\ ua_commodity = "off"
  /\ ua_data = <<>>
  /\ ua_loading = FALSE
  /\ ua_error = <<>>
  /\ ua_reqs = {}
  /\ ua_issued = 0

----------------------------------------------------------------------------
(* The Forecast Service, as the components read it *)

\* commodities returned by GET /options
ServerCommodities == <<"Rice", "Fish">>

REGION_OPTIONS == <<"All", "Eastern", "North Western", "Northern", "Southern", "Western Area">>

Regions == {REGION_OPTIONS[i] : i \in 1..NumRegions}

SeqToSet(s) == {s[i] : i \in 1..Len(s)}

IndexOf(s, x) == CHOOSE i \in 1..Len(s) : s[i] = x

\* a price that identifies the selection it was fetched for
PriceOf(c, r) == 1000 * IndexOf(<<"Rice", "Fish", "Palm oil">>, c) + 100 * IndexOf(REGION_OPTIONS, r)

\* body of GET /predict?commodity=c&region=r&horizon=1
PredictBody(c, r) ==
  [current_price |-> Num(PriceOf(c, r)),
   kpi |-> [pred_1m |-> Num(PriceOf(c, r) + 1),
            pred_3m |-> Num(PriceOf(c, r) + 3),
            pred_6m |-> Num(PriceOf(c, r) + 6),
            pct_change_1m |-> Num(1),
            pct_change_3m |-> Num(3),
            pct_change_6m |-> Num(6),
            future_dates |-> [m1 |-> <<2024, 4, 1>>, m3 |-> <<2024, 6, 1>>, m6 |-> <<2024, 9, 1>>]]]

\* points of GET /series?commodity=c&region=r&months=24
SeriesPoints(c, r) ==
  << [date |-> <<2024, 2, 1>>, y |-> Num(PriceOf(c, r) - 5)],
     [date |-> <<2024, 3, 1>>, y |-> Num(PriceOf(c, r))] >>

----------------------------------------------------------------------------
(* ForecastDashboard *)

NoDates == [m1 |-> <<>>, m3 |-> <<>>, m6 |-> <<>>]

\* the initial kpi, and the kpi set when /predict fails
NullKpi ==
  [current_price |-> Null,
   pred_1m |-> Null, pred_3m |-> Null, pred_6m |-> Null,
   pct_change_1m |-> Null, pct_change_3m |-> Null, pct_change_6m |-> Null,
   future_dates |-> NoDates]

\* the kpi set from the body r1 of /predict
KpiFrom(r1) ==
  [current_price |-> Coalesce(r1.current_price, Null),
   pred_1m |-> Coalesce(r1.kpi.pred_1m, Null),
   pred_3m |-> Coalesce(r1.kpi.pred_3m, Null),
   pred_6m |-> Coalesce(r1.kpi.pred_6m, Null),
   pct_change_1m |-> Coalesce(r1.kpi.pct_change_1m, Null),
   pct_change_3m |-> Coalesce(r1.kpi.pct_change_3m, Null),
   pct_change_6m |-> Coalesce(r1.kpi.pct_change_6m, Null),
   future_dates |-> r1.kpi.future_dates]

NoWrite == [by |-> 0, at |-> 0]

NoOutcome == [predict |-> "none", series |-> "none"]

FDInit ==
  /\ fd_optionsPc = "pending"
  /\ fd_commodities = <<>>
  /\ fd_commodity = ""
  /\ fd_region = REGION_OPTIONS[1]
  /\ fd_history = <<>>
  /\ fd_kpi = NullKpi
  /\ latestReq = 0
  /\ fd_inflight = {}
  /\ fd_kpiWrite = NoWrite
  /\ fd_histWrite = NoWrite
  /\ fd_outcome = NoOutcome
  /\ fd_dropped = 0

\* reqId !== latestReq.current, evaluated when a request of batch reqId settles;
\* never: the guard left out
StaleNever(reqId, latest) == FALSE

Stale(reqId, latest) == reqId # latest

\* cleanup of the previous effect run: ctrl.abort()
FDAbortAll(batches) == {[b EXCEPT !.aborted = TRUE] : b \in batches}

\* the load effect for selection (c, r): cleanup of the previous run, then,
\* unless the selection is incomplete, a new batch with reqId = ++latestReq.current
FDRunEffect(c, r) ==
  IF c = "" \/ r = ""
  THEN /\ fd_inflight' = FDAbortAll(fd_inflight)
       /\ UNCHANGED <<latestReq, fd_outcome>>
  ELSE /\ latestReq' = latestReq + 1
       /\ fd_inflight' = FDAbortAll(fd_inflight) \cup
            {[reqId |-> latestReq + 1, commodity |-> c, region |-> r,
              pc |-> "predict", aborted |-> FALSE]}
       /\ fd_outcome' = [predict |-> "pending", series |-> "pending"]

\* GET /options answered: setCommodities(list); the effect's closure holds the
\* commodity of the first render (""), so the first entry is selected
FD_OptionsOk ==
  /\ fd_optionsPc = "pending"
  /\ latestReq < MaxReq
  /\ fd_optionsPc' = "done"
  /\ fd_commodities' = ServerCommodities
  /\ fd_commodity' = ServerCommodities[1]
  /\ FDRunEffect(ServerCommodities[1], fd_region)
  /\ UNCHANGED <<fd_region, fd_history, fd_kpi, fd_kpiWrite, fd_histWrite, fd_dropped>>
  /\ FDOnly

\* GET /options failed: setCommodities([])
FD_OptionsFail ==
  /\ fd_optionsPc = "pending"
  /\ fd_optionsPc' = "done"
  /\ fd_commodities' = <<>>
  /\ UNCHANGED <<fd_commodity, fd_region, fd_history, fd_kpi, latestReq, fd_inflight,
                 fd_kpiWrite, fd_histWrite, fd_outcome, fd_dropped>>
  /\ FDOnly

\* the user picks another commodity from the loaded list
FD_SelectCommodity(c) ==
  /\ c \in SeqToSet(fd_commodities)
  /\ c # fd_commodity
  /\ latestReq < MaxReq
  /\ fd_commodity' = c
  /\ FDRunEffect(c, fd_region)
  /\ UNCHANGED <<fd_optionsPc, fd_commodities, fd_region, fd_history, fd_kpi,
                 fd_kpiWrite, fd_histWrite, fd_dropped>>
  /\ FDOnly

\* the user picks another market
FD_SelectRegion(r) ==
  /\ r \in Regions
  /\ r # fd_region
  /\ latestReq < MaxReq
  /\ fd_region' = r
  /\ FDRunEffect(fd_commodity, r)
  /\ UNCHANGED <<fd_optionsPc, fd_commodities, fd_commodity, fd_history, fd_kpi,
                 fd_kpiWrite, fd_histWrite, fd_dropped>>
  /\ FDOnly

\* the batch returns at a stale check
FDDrop(b) ==
  /\ fd_inflight' = fd_inflight \ {b}
  /\ fd_dropped' = fd_dropped + 1
  /\ UNCHANGED <<fd_kpi, fd_history, fd_kpiWrite, fd_histWrite, fd_outcome>>

\* /predict of batch b answered with a body
FD_PredictOk(b) ==
  /\ b \in fd_inflight
  /\ b.pc = "predict"
  /\ ~b.aborted
  /\ IF Stale(b.reqId, latestReq)
     THEN FDDrop(b)
     ELSE /\ fd_kpi' = KpiFrom(PredictBody(b.commodity, b.region))
          /\ fd_kpiWrite' = [by |-> b.reqId, at |-> latestReq]
          /\ fd_outcome' = IF b.reqId = latestReq
                           THEN [fd_outcome EXCEPT !.predict = "ok"] ELSE fd_outcome
          /\ fd_inflight' = (fd_inflight \ {b}) \cup {[b EXCEPT !.pc = "series"]}
          /\ UNCHANGED <<fd_history, fd_histWrite, fd_dropped>>
  /\ UNCHANGED <<fd_optionsPc, fd_commodities, fd_commodity, fd_region, latestReq>>
  /\ FDOnly

\* /predict of batch b failed: non-OK status, network error, or the AbortError
\* of an aborted batch
FD_PredictFail(b) ==
  /\ b \in fd_inflight
  /\ b.pc = "predict"
  /\ IF Stale(b.reqId, latestReq)
     THEN FDDrop(b)
     ELSE /\ fd_kpi' = NullKpi
          /\ fd_kpiWrite' = [by |-> b.reqId, at |-> latestReq]
          /\ fd_outcome' = IF b.reqId = latestReq
                           THEN [fd_outcome EXCEPT !.predict = "failed"] ELSE fd_outcome
          /\ fd_inflight' = (fd_inflight \ {b}) \cup {[b EXCEPT !.pc = "series"]}
          /\ UNCHANGED <<fd_history, fd_histWrite, fd_dropped>>
  /\ UNCHANGED <<fd_optionsPc, fd_commodities, fd_commodity, fd_region, latestReq>>
  /\ FDOnly

\* /series of batch b answered with a body
FD_SeriesOk(b) ==
  /\ b \in fd_inflight
  /\ b.pc = "series"
  /\ ~b.aborted
  /\ IF Stale(b.reqId, latestReq)
     THEN FDDrop(b)
     ELSE /\ fd_history' = SeriesPoints(b.commodity, b.region)
          /\ fd_histWrite' = [by |-> b.reqId, at |-> latestReq]
          /\ fd_outcome' = IF b.reqId = latestReq
                           THEN [fd_outcome EXCEPT !.series = "ok"] ELSE fd_outcome
          /\ fd_inflight' = fd_inflight \ {b}
          /\ UNCHANGED <<fd_kpi, fd_kpiWrite, fd_dropped>>
  /\ UNCHANGED <<fd_optionsPc, fd_commodities, fd_commodity, fd_region, latestReq>>
  /\ FDOnly

\* /series of batch b failed
FD_SeriesFail(b) ==
  /\ b \in fd_inflight
  /\ b.pc = "series"
  /\ IF Stale(b.reqId, latestReq)
     THEN FDDrop(b)
     ELSE /\ fd_history' = <<>>
          /\ fd_histWrite' = [by |-> b.reqId, at |-> latestReq]
          /\ fd_outcome' = IF b.reqId = latestReq
                           THEN [fd_outcome EXCEPT !.series = "failed"] ELSE fd_outcome
          /\ fd_inflight' = fd_inflight \ {b}
          /\ UNCHANGED <<fd_kpi, fd_kpiWrite, fd_dropped>>
  /\ UNCHANGED <<fd_optionsPc, fd_commodities, fd_commodity, fd_region, latestReq>>
  /\ FDOnly

FDNext ==
  \/ FD_OptionsOk
  \/ FD_OptionsFail
  \/ \E c \in SeqToSet(ServerCommodities) : FD_SelectCommodity(c)
  \/ \E r \in Regions : FD_SelectRegion(r)
  \/ \E b \in fd_inflight : FD_PredictOk(b)
  \/ \E b \in fd_inflight : FD_PredictFail(b)
  \/ \E b \in fd_inflight : FD_SeriesOk(b)
  \/ \E b \in fd_inflight : FD_SeriesFail(b)

InitFD == FDInit /\ CPOff /\ QHOff /\ BFOff /\ POff /\ PROff /\ UAOff

SpecFD == InitFD /\ [][FDNext]_vars

\* a request of some batch settles
FD_Settle ==
  \E b \in fd_inflight :
    FD_PredictOk(b) \/ FD_PredictFail(b) \/ FD_SeriesOk(b) \/ FD_SeriesFail(b)

\* every issued request is eventually answered or fails
FairSpecFD == SpecFD /\ WF_vars(FD_Settle)

----------------------------------------------------------------------------
(* Claims about ForecastDashboard *)

\* C1: every write to kpi or history is made by the batch whose reqId equals
\* latestReq at the time of the write; nothing that belongs to a superseded
\* batch writes kpi or history after the next batch was issued.
C1_OnlyLatestBatchWrites ==
  /\ fd_kpiWrite.by = fd_kpiWrite.at
  /\ fd_histWrite.by = fd_histWrite.at

\* a superseded batch settled and was discarded, and the batch that replaced
\* it wrote both kpi and history
C1_Witness ==
  /\ latestReq >= 2
  /\ fd_dropped >= 1
  /\ fd_kpiWrite.by = latestReq
  /\ fd_histWrite.by = latestReq

FDLastBothOk == fd_outcome.predict = "ok" /\ fd_outcome.series = "ok"

FDShowsLast ==
  /\ fd_kpi = KpiFrom(PredictBody(fd_commodity, fd_region))
  /\ fd_history = SeriesPoints(fd_commodity, fd_region)

\* C2: last selection wins.  Once both requests of the last selection have
\* succeeded, kpi and history hold the values returned for that selection and
\* keep them, whenever the requests of earlier selections settle; and every
\* batch eventually settles.
C2_LastSelectionWins ==
  /\ [](FDLastBothOk => FDShowsLast)
  /\ <>[](fd_inflight = {})

\* the last selection is shown while an earlier selection's request has not
\* settled yet
C2_Witness ==
  /\ latestReq >= 2
  /\ FDLastBothOk
  /\ FDShowsLast
  /\ \E b \in fd_inflight : b.reqId < latestReq

----------------------------------------------------------------------------
(* CustomerPlanner: the load effect of CustomerPlanner.jsx ("bundle": one   *)
(* /api/history and one /api/forecast_bundle request joined by Promise.all) *)
(* and of its variant ("predict": /series, then /predict once per horizon). *)

DefaultCommodities == <<"Rice", "Fish", "Palm oil">>

\* const horizons = [1, 3, 6]
Horizons == <<1, 3, 6>>

HorizonSet == SeqToSet(Horizons)

\* { "1": [], "3": [], "6": [] }
EmptyBundle == [h \in HorizonSet |-> <<>>]

\* body of GET /predict?commodity=c&region=All&horizon=h, as the planner reads it:
\* the target date kpi.future_dates[`${h}m`] and the price kpi[`pred_${h}m`]
HorizonEntry(c, h) ==
  [date |-> <<2024, 3 + h, 1>>, yhat |-> Num(PriceOf(c, "All") + h), lo |-> Null, hi |-> Null]

\* forecasts of GET /api/forecast_bundle?commodity=c
ForecastBundle(c) == [h \in HorizonSet |-> <<HorizonEntry(c, h)>>]

CPNoOutcome == [series |-> "pending", failed |-> {}, done |-> FALSE]

\* the effect run for commodity c: cleanup of the previous run (ctrl.abort()),
\* setLoading(true), and the first request(s) of a new batch
CPRunEffect(c) ==
  /\ cp_issued' = cp_issued + 1
  /\ cp_loading' = TRUE
  /\ cp_outcome' = CPNoOutcome
  /\ cp_inflight' = {[b EXCEPT !.aborted = TRUE] : b \in cp_inflight} \cup
       {[id |-> cp_issued + 1, commodity |-> c, aborted |-> FALSE,
         stage |-> 0, out |-> <<>>, h |-> "pending", f |-> "pending"]}

\* the state after the first render and its effects
CPInit ==
  /\ cp_variant \in {"bundle", "predict"}
  /\ cp_commodity = "Rice"
  /\ cp_hist = <<>>
  /\ cp_bundle = EmptyBundle
  /\ cp_loading = TRUE
  /\ cp_issued = 1
  /\ cp_write = NoWrite
  /\ cp_outcome = CPNoOutcome
  /\ cp_inflight = {[id |-> 1, commodity |-> "Rice", aborted |-> FALSE,
                     stage |-> 0, out |-> <<>>, h |-> "pending", f |-> "pending"]}

\* the user picks another commodity
CP_SelectCommodity(c) ==
  /\ cp_variant # "off"
  /\ c \in SeqToSet(DefaultCommodities)
  /\ c # cp_commodity
  /\ cp_issued < MaxReq
  /\ cp_commodity' = c
  /\ CPRunEffect(c)
  /\ UNCHANGED <<cp_variant, cp_hist, cp_bundle, cp_write>>
  /\ CPOnly

\* the latest batch records what its requests returned
CPNote(b, o) == cp_outcome' = IF b.id = cp_issued THEN o ELSE cp_outcome

\* catch { setHist([]); setBundle(empty) } finally { setLoading(false) }
CPCatch(b) ==
  /\ cp_hist' = <<>>
  /\ cp_bundle' = EmptyBundle
  /\ cp_loading' = FALSE
  /\ cp_write' = [by |-> b.id, at |-> cp_issued]
  /\ cp_inflight' = cp_inflight \ {b}

\* the loop over the horizons goes on to the next horizon; after the last one
\* setBundle(out) and, in the finally block, setLoading(false)
CPAfterHorizon(b, out) ==
  IF b.stage < Len(Horizons)
  THEN /\ cp_inflight' = (cp_inflight \ {b}) \cup {[b EXCEPT !.stage = b.stage + 1, !.out = out]}
       /\ UNCHANGED <<cp_hist, cp_bundle, cp_loading, cp_write>>
  ELSE /\ cp_bundle' = [h \in {out[i][1] : i \in 1..Len(out)} |->
                          (CHOOSE e \in SeqToSet(out) : e[1] = h)[2]]
       /\ cp_loading' = FALSE
       /\ cp_write' = [by |-> b.id, at |-> cp_issued]
       /\ cp_inflight' = cp_inflight \ {b}
       /\ UNCHANGED cp_hist

\* "predict" variant: /series answered OK: setHist(points), then the first /predict
CP_SeriesOk(b) ==
  /\ cp_variant = "predict"
  /\ b \in cp_inflight
  /\ b.stage = 0
  /\ ~b.aborted
  /\ cp_hist' = SeriesPoints(b.commodity, "All")
  /\ cp_write' = [by |-> b.id, at |-> cp_issued]
  /\ cp_inflight' = (cp_inflight \ {b}) \cup {[b EXCEPT !.stage = 1]}
  /\ CPNote(b, [cp_outcome EXCEPT !.series = "ok"])
  /\ UNCHANGED <<cp_variant, cp_commodity, cp_bundle, cp_loading, cp_issued>>
  /\ CPOnly

\* "predict" variant: /series failed (non-OK status: throw; network error or
\* AbortError: the fetch rejects)
CP_SeriesFail(b) ==
  /\ cp_variant = "predict"
  /\ b \in cp_inflight
  /\ b.stage = 0
  /\ CPCatch(b)
  /\ CPNote(b, [cp_outcome EXCEPT !.series = "failed", !.done = TRUE])
  /\ UNCHANGED <<cp_variant, cp_commodity, cp_issued>>
  /\ CPOnly

\* "predict" variant: /predict for the horizon of this stage answered OK
CP_PredictOk(b) ==
  /\ cp_variant = "predict"
  /\ b \in cp_inflight
  /\ b.stage >= 1
  /\ ~b.aborted
  /\ CPAfterHorizon(b, Append(b.out, <<Horizons[b.stage], <<HorizonEntry(b.commodity, Horizons[b.stage])>> >>))
  /\ CPNote(b, [cp_outcome EXCEPT !.done = (b.stage = Len(Horizons))])
  /\ UNCHANGED <<cp_variant, cp_commodity, cp_issued>>
  /\ CPOnly

\* what the loop does when /predict answers with a non-OK status: continue
CPOnNotOk(b) == CPAfterHorizon(b, b.out)

\* "predict" variant: /predict for the horizon of this stage answered non-OK
CP_PredictNotOk(b) ==
  /\ cp_variant = "predict"
  /\ b \in cp_inflight
  /\ b.stage >= 1
  /\ ~b.aborted
  /\ CPOnNotOk(b)
  /\ CPNote(b, [cp_outcome EXCEPT !.failed = @ \cup {Horizons[b.stage]},
                                  !.done = (b.stage = Len(Horizons))])
  /\ UNCHANGED <<cp_variant, cp_commodity, cp_issued>>
  /\ CPOnly

\* "predict" variant: the /predict fetch rejects (network error or AbortError)
CP_PredictReject(b) ==
  /\ cp_variant = "predict"
  /\ b \in cp_inflight
  /\ b.stage >= 1
  /\ CPCatch(b)
  /\ CPNote(b, [cp_outcome EXCEPT !.failed = @ \cup {Horizons[b.stage]}, !.done = TRUE])
  /\ UNCHANGED <<cp_variant, cp_commodity, cp_issued>>
  /\ CPOnly

\* "bundle" variant: one of the two requests is answered, OK (its JSON) or
\* non-OK (null); when both are in, setHist(h?.points ?? []),
\* setBundle(f?.forecasts ?? empty) and setLoading(false)
CP_BundleAnswer(b, which, st) ==
  /\ cp_variant = "bundle"
  /\ b \in cp_inflight
  /\ ~b.aborted
  /\ which \in {"h", "f"}
  /\ st \in {"ok", "notok"}
  /\ b[which] = "pending"
  /\ LET nb == [b EXCEPT ![which] = st]
     IN IF nb.h # "pending" /\ nb.f # "pending"
        THEN /\ cp_hist' = IF nb.h = "ok" THEN SeriesPoints(b.commodity, "All") ELSE <<>>
             /\ cp_bundle' = IF nb.f = "ok" THEN ForecastBundle(b.commodity) ELSE EmptyBundle
             /\ cp_loading' = FALSE
             /\ cp_write' = [by |-> b.id, at |-> cp_issued]
             /\ cp_inflight' = cp_inflight \ {b}
             /\ CPNote(b, [cp_outcome EXCEPT !.done = TRUE])
        ELSE /\ cp_inflight' = (cp_inflight \ {b}) \cup {nb}
             /\ UNCHANGED <<cp_hist, cp_bundle, cp_loading, cp_write, cp_outcome>>
  /\ UNCHANGED <<cp_variant, cp_commodity, cp_issued>>
  /\ CPOnly

\* "bundle" variant: a pending fetch rejects (network error or AbortError), so
\* Promise.all rejects
CP_BundleReject(b) ==
  /\ cp_variant = "bundle"
  /\ b \in cp_inflight
  /\ CPCatch(b)
  /\ CPNote(b, [cp_outcome EXCEPT !.series = "failed", !.done = TRUE])
  /\ UNCHANGED <<cp_variant, cp_commodity, cp_issued>>
  /\ CPOnly

CPNext ==
  \/ \E c \in SeqToSet(DefaultCommodities) : CP_SelectCommodity(c)
  \/ \E b \in cp_inflight : CP_SeriesOk(b)
  \/ \E b \in cp_inflight : CP_SeriesFail(b)
  \/ \E b \in cp_inflight : CP_PredictOk(b)
  \/ \E b \in cp_inflight : CP_PredictNotOk(b)
  \/ \E b \in cp_inflight : CP_PredictReject(b)
  \/ \E b \in cp_inflight, which \in {"h", "f"}, st \in {"ok", "notok"} : CP_BundleAnswer(b, which, st)
  \/ \E b \in cp_inflight : CP_BundleReject(b)

InitCP == CPInit /\ FDOff /\ QHOff /\ BFOff /\ POff /\ PROff /\ UAOff

SpecCP == InitCP /\ [][CPNext]_vars

----------------------------------------------------------------------------
(* Claims about CustomerPlanner *)

\* C3: the outcome of a superseded batch (a late response, a failure, or its
\* own cancellation) is discarded: every write to hist, bundle or loading made
\* after an await is made by the batch that is the latest one at that time.
C3_StaleBatchDiscarded == cp_write.by = cp_write.at

\* C10: in the /series + /predict variant no partial result is shown: when
\* history succeeded and the request of some horizon failed, the selection
\* ends with hist empty and every bundle entry empty.
C10_NoPartialResult ==
  (cp_variant = "predict" /\ cp_outcome.done /\ cp_outcome.series = "ok"
     /\ cp_outcome.failed # {})
  => (cp_hist = <<>> /\ cp_bundle = EmptyBundle)

----------------------------------------------------------------------------
(* QuickHorizons: the effect go() of both copies of the component.          *)
(* "predict":  GET /series, then GET /predict once per horizon.             *)
(* "horizons": GET /api/horizons; on a non-OK answer, GET /api/buyer-forecast *)
(*             once per horizon.                                            *)
(* A run is at stage 0 (first request) or at stage i (request for           *)
(* Horizons[i]).                                                            *)

\* body of GET /predict?commodity=c&region=All&horizon=h: kpi[`pred_${k}m`] and
\* kpi.future_dates[`${k}m`] for every horizon k; the values tell the answered
\* request (c, h) and the key k apart
HorizonBody(c, h) ==
  [kpi |-> [pred |-> [k \in HorizonSet |-> Num(PriceOf(c, "All") + 10 * h + k)],
            future_dates |-> [k \in HorizonSet |-> <<2024, 3 + k, h>>]]]

\* body of GET /api/buyer-forecast?commodity=c&h=h
BuyerForecastBody(c, h) ==
  [target_date |-> <<2024, 3 + h, 1>>,
   predicted_price |-> Num(PriceOf(c, "All") + h),
   last_known |-> [date |-> <<2024, 3, 1>>, price_sll |-> Num(PriceOf(c, "All"))],
   path |-> <<>>]

\* new Error(`HTTP ${status}`).message
HttpError == Str(500)

\* the message of the TypeError of a rejected fetch
NetworkError == Str(0)

\* the row pushed for horizon h from the body pj of its /predict request;
\* reading the 1-month entry for every horizon would be a slip
QHRow_FirstKey(h, pj) ==
  [h |-> h,
   target_date |-> pj.kpi.future_dates[1],
   predicted_price |-> pj.kpi.pred[1],
   lo |-> Undef, hi |-> Undef]

QHRow(h, pj) ==
  [h |-> h,
   target_date |-> pj.kpi.future_dates[h],
   predicted_price |-> pj.kpi.pred[h],
   lo |-> Undef, hi |-> Undef]

\* the row pushed for horizon h from the body jj of /api/buyer-forecast
QHRowBF(h, jj) ==
  [h |-> h,
   target_date |-> jj.target_date,
   predicted_price |-> jj.predicted_price,
   lo |-> Undef, hi |-> Undef]

\* last_known computed from the points of /series
QHLastKnown(pts) ==
  IF Len(pts) = 0 THEN Null
  ELSE [date |-> pts[Len(pts)].date, price_sll |-> pts[Len(pts)].y]

\* results of GET /api/horizons?commodity=c&horizons=1,3,6
HorizonsResults(c) == [i \in 1..Len(Horizons) |-> QHRowBF(Horizons[i], BuyerForecastBody(c, Horizons[i]))]

QHNewRun(id, c) ==
  [id |-> id, commodity |-> c, alive |-> TRUE, stage |-> 0, out |-> <<>>,
   lastKnown |-> Null, failures |-> {}]

QHPending == [result |-> "pending", stage |-> 0]

\* the effect for commodity c: the previous run's cleanup (alive = false), then
\* go(): setLoading(true); setErr(null); the first request
QHRunEffect(c) ==
  /\ qh_issued' = qh_issued + 1
  /\ qh_loading' = TRUE
  /\ qh_err' = Null
  /\ qh_outcome' = QHPending
  /\ qh_runs' = {[r EXCEPT !.alive = FALSE] : r \in qh_runs} \cup {QHNewRun(qh_issued + 1, c)}

\* the state after the first render (commodity "Rice") and its effect
QHInit ==
  /\ qh_variant \in {"predict", "horizons"}
  /\ qh_mounted = TRUE
  /\ qh_commodity = "Rice"
  /\ qh_rows = <<>>
  /\ qh_meta = Null
  /\ qh_loading = TRUE
  /\ qh_err = Null
  /\ qh_issued = 1
  /\ qh_outcome = QHPending
  /\ qh_runs = {QHNewRun(1, "Rice")}

\* the parent renders with another commodity
QH_SetCommodity(c) ==
  /\ qh_mounted
  /\ c \in SeqToSet(DefaultCommodities)
  /\ c # qh_commodity
  /\ qh_issued < MaxReq
  /\ qh_commodity' = c
  /\ QHRunEffect(c)
  /\ UNCHANGED <<qh_variant, qh_mounted, qh_rows, qh_meta>>
  /\ QHOnly

\* the component unmounts: the cleanup of the last run
QH_Unmount ==
  /\ qh_mounted
  /\ qh_mounted' = FALSE
  /\ qh_runs' = {[r EXCEPT !.alive = FALSE] : r \in qh_runs}
  /\ UNCHANGED <<qh_variant, qh_commodity, qh_rows, qh_meta, qh_loading, qh_err,
                 qh_issued, qh_outcome>>
  /\ QHOnly

QHNote(r, o) == qh_outcome' = IF r.id = qh_issued THEN o ELSE qh_outcome

\* after the loop: if (!alive) return; setRows(out); setMeta(...); setLoading(false)
QHFinish(r, out, lastKnown) ==
  /\ qh_runs' = qh_runs \ {r}
  /\ QHNote(r, [result |-> "ok", stage |-> r.stage])
  /\ IF r.alive
     THEN /\ qh_rows' = out
          /\ qh_meta' = [last_known |-> lastKnown, model |-> "XGBoost"]
          /\ qh_loading' = FALSE
          /\ UNCHANGED qh_err
     ELSE UNCHANGED <<qh_rows, qh_meta, qh_loading, qh_err>>

\* catch (e): if (!alive) return; setErr(e.message); setLoading(false);
\* without the test of alive a cancelled run would report its failure
QHCatch_NoAliveTest(r, msg) ==
  /\ qh_runs' = qh_runs \ {r}
  /\ QHNote(r, [result |-> "failed", stage |-> r.stage])
  /\ qh_err' = msg
  /\ qh_loading' = FALSE
  /\ UNCHANGED <<qh_rows, qh_meta>>

QHCatch(r, msg) ==
  /\ qh_runs' = qh_runs \ {r}
  /\ QHNote(r, [result |-> "failed", stage |-> r.stage])
  /\ IF r.alive
     THEN /\ qh_err' = msg
          /\ qh_loading' = FALSE
          /\ UNCHANGED <<qh_rows, qh_meta>>
     ELSE UNCHANGED <<qh_rows, qh_meta, qh_loading, qh_err>>

\* the run goes on to the request of the next horizon, or finishes after the last
QHAdvance(r, out, lastKnown, failures) ==
  IF r.stage < Len(Horizons)
  THEN /\ qh_runs' = (qh_runs \ {r}) \cup
            {[r EXCEPT !.stage = r.stage + 1, !.out = out, !.lastKnown = lastKnown,
                       !.failures = failures]}
       /\ UNCHANGED <<qh_rows, qh_meta, qh_loading, qh_err, qh_outcome>>
  ELSE QHFinish(r, out, lastKnown)

\* the request of the run's stage is answered OK
QH_StageOk(r) ==
  /\ r \in qh_runs
  /\ IF r.stage = 0
     THEN IF qh_variant = "predict"
          THEN QHAdvance(r, r.out, QHLastKnown(SeriesPoints(r.commodity, "All")), r.failures)
          ELSE \* /api/horizons: if (!alive) return; setRows(j.results || []); ...
               /\ qh_runs' = qh_runs \ {r}
               /\ QHNote(r, [result |-> "ok", stage |-> 0])
               /\ IF r.alive
                  THEN /\ qh_rows' = HorizonsResults(r.commodity)
                       /\ qh_meta' = [last_known |-> BuyerForecastBody(r.commodity, 1).last_known,
                                      model |-> "XGBoost"]
                       /\ qh_loading' = FALSE
                       /\ UNCHANGED qh_err
                  ELSE UNCHANGED <<qh_rows, qh_meta, qh_loading, qh_err>>
     ELSE IF qh_variant = "predict"
          THEN QHAdvance(r, Append(r.out, QHRow(Horizons[r.stage], HorizonBody(r.commodity, Horizons[r.stage]))),
                         r.lastKnown, r.failures)
          ELSE QHAdvance(r, Append(r.out, QHRowBF(Horizons[r.stage], BuyerForecastBody(r.commodity, Horizons[r.stage]))),
                         IF r.lastKnown = Null
                         THEN BuyerForecastBody(r.commodity, Horizons[r.stage]).last_known
                         ELSE r.lastKnown,
                         r.failures)
  /\ UNCHANGED <<qh_variant, qh_mounted, qh_commodity, qh_issued>>
  /\ QHOnly

\* a non-OK answer to /series, /predict or /api/buyer-forecast:
\* throw new Error(`HTTP ${status}`), caught by the catch block;
\* skipping the horizon and going on would be the other policy
QHOnNotOk_Continue(r) ==
  QHAdvance(r, r.out, r.lastKnown, r.failures \cup {r.stage})

QHOnNotOk(r) == QHCatch(r, HttpError)

\* the request of the run's stage is answered with a non-OK status
QH_StageNotOk(r) ==
  /\ r \in qh_runs
  /\ IF qh_variant = "horizons" /\ r.stage = 0
     THEN \* /api/horizons not OK: fall back to one request per horizon
          QHAdvance(r, r.out, r.lastKnown, r.failures)
     ELSE QHOnNotOk(r)
  /\ UNCHANGED <<qh_variant, qh_mounted, qh_commodity, qh_issued>>
  /\ QHOnly

\* the fetch of the run's stage rejects (network error)
QH_StageReject(r) ==
  /\ r \in qh_runs
  /\ QHCatch(r, NetworkError)
  /\ UNCHANGED <<qh_variant, qh_mounted, qh_commodity, qh_issued>>
  /\ QHOnly

QHNext ==
  \/ \E c \in SeqToSet(DefaultCommodities) : QH_SetCommodity(c)
  \/ QH_Unmount
  \/ \E r \in qh_runs : QH_StageOk(r)
  \/ \E r \in qh_runs : QH_StageNotOk(r)
  \/ \E r \in qh_runs : QH_StageReject(r)

InitQH == QHInit /\ FDOff /\ CPOff /\ BFOff /\ POff /\ PROff /\ UAOff

SpecQH == InitQH /\ [][QHNext]_vars

----------------------------------------------------------------------------
(* Claims about QuickHorizons *)

\* C8: if the history request or the request of any horizon fails, the whole
\* operation fails: the run makes no further request (no run that has seen a
\* failure is still requesting), rows never holds a partial list, and when the
\* latest run of the mounted component has failed, err is set.
C8_FailureFailsWhole ==
  /\ \A r \in qh_runs : r.failures = {}
  /\ Len(qh_rows) \in {0, Len(Horizons)}
  /\ (qh_mounted /\ qh_outcome.result = "failed") => (qh_err # Null /\ ~qh_loading)

\* the request for the second horizon of the latest run failed after the first
\* horizon had succeeded: err is set and rows is still the initial empty list
C8_Witness ==
  /\ qh_mounted
  /\ qh_outcome = [result |-> "failed", stage |-> 2]
  /\ qh_err = HttpError
  /\ qh_rows = <<>>
  /\ qh_runs = {}

QHShown(i) == qh_rows[i]

\* C9: when the per-horizon fetch succeeds, rows holds one entry per horizon of
\* [1, 3, 6], in that order, each with the prediction and the target date of
\* the answer to its own horizon's request.
C9_RowsPerHorizonInOrder ==
  (qh_variant = "predict" /\ qh_mounted /\ qh_outcome.result = "ok")
  => /\ Len(qh_rows) = 3
     /\ QHShown(1).h = 1 /\ QHShown(2).h = 3 /\ QHShown(3).h = 6
     /\ \A i \in 1..3 :
          /\ QHShown(i).predicted_price = HorizonBody(qh_commodity, QHShown(i).h).kpi.pred[QHShown(i).h]
          /\ QHShown(i).target_date = HorizonBody(qh_commodity, QHShown(i).h).kpi.future_dates[QHShown(i).h]

\* the run for a commodity selected later succeeded and its three rows are shown
C9_Witness ==
  /\ qh_variant = "predict"
  /\ qh_mounted
  /\ qh_issued >= 2
  /\ qh_outcome.result = "ok"
  /\ Len(qh_rows) = 3
  /\ QHShown(2).predicted_price = Num(PriceOf(qh_commodity, "All") + 33)

----------------------------------------------------------------------------
(* monthsBetween, the nearest-horizon reduce of BuyerForecast.onSearch, and *)
(* pctChange.                                                               *)
(* A date string "YYYY-MM-DD" is the tuple <<year, month, day>>, month      *)
(* 1..12; <<>> is the empty string.                                         *)

\* new Date("YYYY-MM-DD") is midnight UTC of that day; getFullYear() and
\* getMonth() read it in local time: the same calendar day in a zone at or
\* east of UTC, the previous calendar day in a zone west of UTC.
\* The result is [year, month] with month 0..11 as getMonth() gives it.
LocalYearMonth(d, tzWest) ==
  IF tzWest /\ d[3] = 1
  THEN IF d[2] = 1 THEN [year |-> d[1] - 1, month |-> 11]
                   ELSE [year |-> d[1], month |-> d[2] - 2]
  ELSE [year |-> d[1], month |-> d[2] - 1]

\* monthsBetween(d1, d2) in a browser whose zone is west of UTC or not
monthsBetween(d1, d2, tzWest) ==
  LET a == LocalYearMonth(d1, tzWest)
      b == LocalYearMonth(d2, tzWest)
  IN Max(0, (b.year - a.year) * 12 + (b.month - a.month))

\* const candidates = [1, 3, 6]
candidates == <<1, 3, 6>>

\* the callback of the reduce: keeps best unless h is strictly nearer to m;
\* with <= a tie would go to the later horizon
Nearer_OrEqual(best, h, m) == IF Abs(h - m) <= Abs(best - m) THEN h ELSE best

Nearer(best, h, m) == IF Abs(h - m) < Abs(best - m) THEN h ELSE best

RECURSIVE ReduceFrom(_, _, _)
\* candidates.reduce(callback, best) over candidates[i..]
ReduceFrom(best, i, m) ==
  IF i > Len(candidates) THEN best
  ELSE ReduceFrom(Nearer(best, candidates[i], m), i + 1, m)

\* candidates.reduce((best, h) => ..., candidates[0])
NearestHorizon(m) == ReduceFrom(candidates[1], 1, m)

\* the quotient n / d, kept exact
Quot(n, d) == [t |-> "num", v |-> n, d |-> d]

\* pctChange(future, base); returning 0 for an undefined change would be a slip
pctChange_ZeroForUndefined(future, base) ==
  IF IsFinite(future) /\ IsFinite(base) /\ base.v # 0
  THEN Quot((future.v - base.v) * 100, base.v)
  ELSE Num(0)

pctChange(future, base) ==
  IF IsFinite(future) /\ IsFinite(base) /\ base.v # 0
  THEN Quot((future.v - base.v) * 100, base.v)
  ELSE Null

Years == 2024..(2024 + NumYears - 1)

\* date strings: the first and the 15th of every month
DateStrings == {<<y, m, d>> : y \in Years, m \in 1..12, d \in {1, 15}}

\* values handed to pctChange
JsValues ==
  {Num(n) : n \in {-100, -1, 0, 1, 5, 98, 100, 102, 110}}
    \cup {Null, Undef, NaN, PosInf, NegInf, Str(5)}

PInit ==
  /\ p_done = FALSE
  /\ p_out = Null
  /\ \/ /\ p_op = "search"
        /\ p_in \in [last : DateStrings, target : DateStrings, tzWest : BOOLEAN]
     \/ /\ p_op = "nearest"
        /\ p_in \in [m : 0..MaxMonths]
     \/ /\ p_op = "pctChange"
        /\ p_in \in [future : JsValues, base : JsValues]

\* onSearch: m = monthsBetween(lastDate, buyDate), then the reduce
P_Search ==
  /\ p_op = "search"
  /\ ~p_done
  /\ p_done' = TRUE
  /\ p_out' = [m |-> monthsBetween(p_in.last, p_in.target, p_in.tzWest),
               horizon |-> NearestHorizon(monthsBetween(p_in.last, p_in.target, p_in.tzWest))]
  /\ UNCHANGED <<p_op, p_in>>
  /\ POnly

\* the reduce alone, for a month distance m
P_Nearest ==
  /\ p_op = "nearest"
  /\ ~p_done
  /\ p_done' = TRUE
  /\ p_out' = [horizon |-> NearestHorizon(p_in.m)]
  /\ UNCHANGED <<p_op, p_in>>
  /\ POnly

P_PctChange ==
  /\ p_op = "pctChange"
  /\ ~p_done
  /\ p_done' = TRUE
  /\ p_out' = pctChange(p_in.future, p_in.base)
  /\ UNCHANGED <<p_op, p_in>>
  /\ POnly

PNext == P_Search \/ P_Nearest \/ P_PctChange

InitPure == PInit /\ FDOff /\ CPOff /\ QHOff /\ BFOff /\ PROff /\ UAOff

SpecPure == InitPure /\ [][PNext]_vars

----------------------------------------------------------------------------
(* BuyerForecast (the /series + /predict variant) *)

\* the options of the commodity select
BFCommodities == <<"Rice", "Fish", "Palm oil">>

\* dates the user types into the date input or picks from a QuickHorizons row
BFDates == {<<2024, 4, 1>>, <<2024, 9, 15>>}

\* new Error("No history available yet.")
NoHistoryYet == Str(1)

\* points.map(p => ({ date: p.date, price: p.y }))
BFHistoryOf(pts) == [i \in 1..Len(pts) |-> [date |-> pts[i].date, price |-> pts[i].y]]

\* the effect on [commodity]: the cleanup of the earlier run, then a new run
BFRunHistoryEffect(c) ==
  /\ bf_histIssued' = bf_histIssued + 1
  /\ bf_histRuns' = {[r EXCEPT !.alive = FALSE] : r \in bf_histRuns}
                      \cup {[id |-> bf_histIssued + 1, commodity |-> c, alive |-> TRUE]}

BFInit ==
  /\ bf_tzWest \in BOOLEAN
  /\ bf_commodity = "Rice"
  /\ bf_buyDate = <<>>
  /\ bf_current = Null
  /\ bf_forecast = Null
  /\ bf_history = <<>>
  /\ bf_loading = FALSE
  /\ bf_err = Null
  /\ bf_histIssued = 1
  /\ bf_histRuns = {[id |-> 1, commodity |-> "Rice", alive |-> TRUE]}
  /\ bf_searches = {}
  /\ bf_timers = <<>>
  /\ bf_clicks = 0
  /\ bf_track = [started |-> 0, reset |-> FALSE]

\* the select's onChange: setCommodity; nothing else is reset
BF_SetCommodity(c) ==
  /\ c # bf_commodity
  /\ bf_histIssued < MaxReq
  /\ bf_commodity' = c
  /\ BFRunHistoryEffect(c)
  /\ UNCHANGED <<bf_tzWest, bf_buyDate, bf_current, bf_forecast, bf_history, bf_loading,
                 bf_err, bf_searches, bf_timers, bf_clicks, bf_track>>
  /\ BFOnly

\* /series answered 200 with points: a run that is no longer alive returns
BF_HistoryOk(r) ==
  /\ bf_histRuns' = bf_histRuns \ {r}
  /\ bf_history' = IF r.alive THEN BFHistoryOf(SeriesPoints(r.commodity, "All")) ELSE bf_history
  /\ UNCHANGED <<bf_tzWest, bf_commodity, bf_buyDate, bf_current, bf_forecast, bf_loading,
                 bf_err, bf_histIssued, bf_searches, bf_timers, bf_clicks, bf_track>>
  /\ BFOnly

\* /series failed: catch {} swallows it
BF_HistoryFail(r) ==
  /\ bf_histRuns' = bf_histRuns \ {r}
  /\ UNCHANGED <<bf_tzWest, bf_commodity, bf_buyDate, bf_current, bf_forecast, bf_history,
                 bf_loading, bf_err, bf_histIssued, bf_searches, bf_timers, bf_clicks, bf_track>>
  /\ BFOnly

\* the date input's onChange
BF_SetBuyDate(d) ==
  /\ d # bf_buyDate
  /\ bf_buyDate' = d
  /\ UNCHANGED <<bf_tzWest, bf_commodity, bf_current, bf_forecast, bf_history, bf_loading,
                 bf_err, bf_histRuns, bf_histIssued, bf_searches, bf_timers, bf_clicks, bf_track>>
  /\ BFOnly

\* onSearch up to its await, run with the commodity, buyDate and history of
\* the render whose closure it is
BFOnSearch(id, c, bd, hist) ==
  IF c = "" \/ bd = <<>>
  THEN UNCHANGED <<bf_err, bf_loading, bf_current, bf_forecast, bf_searches, bf_track>>
  ELSE /\ bf_track' = [started |-> bf_track.started + 1, reset |-> FALSE]
       /\ bf_current' = Null
       /\ bf_forecast' = Null
       /\ IF Len(hist) = 0
          THEN /\ bf_err' = NoHistoryYet
               /\ bf_loading' = FALSE
               /\ UNCHANGED bf_searches
          ELSE /\ bf_err' = Null
               /\ bf_loading' = TRUE
               /\ bf_searches' = bf_searches \cup
                    {[id |-> id, seq |-> bf_track.started + 1, commodity |-> c,
                      lastDate |-> hist[Len(hist)].date,
                      lastPrice |-> hist[Len(hist)].price,
                      horizon |-> NearestHorizon(
                         monthsBetween(hist[Len(hist)].date, bd, bf_tzWest))]}

\* the Search button, disabled while loading or without a date
BF_ClickSearch ==
  /\ ~bf_loading
  /\ bf_buyDate # <<>>
  /\ bf_clicks < MaxClicks
  /\ bf_clicks' = bf_clicks + 1
  /\ BFOnSearch(bf_clicks + 1, bf_commodity, bf_buyDate, bf_history)
  /\ UNCHANGED <<bf_tzWest, bf_commodity, bf_buyDate, bf_history, bf_histRuns,
                 bf_histIssued, bf_timers>>
  /\ BFOnly

\* handlePickDate: setBuyDate(dateStr); setTimeout(onSearch, 0) with the
\* onSearch of the current render
BF_PickDate(d) ==
  /\ bf_clicks < MaxClicks
  /\ bf_clicks' = bf_clicks + 1
  /\ bf_buyDate' = d
  /\ bf_timers' = Append(bf_timers, [id |-> bf_clicks + 1, commodity |-> bf_commodity,
                                     buyDate |-> bf_buyDate, history |-> bf_history])
  /\ UNCHANGED <<bf_tzWest, bf_commodity, bf_current, bf_forecast, bf_history, bf_loading,
                 bf_err, bf_histRuns, bf_histIssued, bf_searches, bf_track>>
  /\ BFOnly

\* the oldest timer fires
BF_TimerFire ==
  /\ bf_timers # <<>>
  /\ bf_timers' = Tail(bf_timers)
  /\ BFOnSearch(Head(bf_timers).id, Head(bf_timers).commodity, Head(bf_timers).buyDate,
                Head(bf_timers).history)
  /\ UNCHANGED <<bf_tzWest, bf_commodity, bf_buyDate, bf_history, bf_histRuns,
                 bf_histIssued, bf_clicks>>
  /\ BFOnly

\* /predict answered 200: setCurrent, setForecast, finally setLoading(false)
BF_SearchOk(s) ==
  /\ bf_searches' = bf_searches \ {s}
  /\ bf_current' = [date |-> s.lastDate, price_sll |-> s.lastPrice]
  /\ bf_forecast' =
       [target_date |-> HorizonBody(s.commodity, s.horizon).kpi.future_dates[s.horizon],
        predicted_price |-> HorizonBody(s.commodity, s.horizon).kpi.pred[s.horizon],
        last_known |-> [date |-> s.lastDate, price_sll |-> s.lastPrice],
        path |-> <<>>]
  /\ bf_loading' = FALSE
  /\ UNCHANGED <<bf_tzWest, bf_commodity, bf_buyDate, bf_history, bf_err, bf_histRuns,
                 bf_histIssued, bf_timers, bf_clicks, bf_track>>
  /\ BFOnly

\* /predict answered non-OK or the fetch rejected: setErr, finally
\* setLoading(false); issuing the request once more would be a retry
BF_SearchFail_Reissue(s, msg) ==
  /\ bf_searches' = (bf_searches \ {s}) \cup {[s EXCEPT !.id = s.id + MaxClicks + 1]}
  /\ bf_err' = msg
  /\ bf_loading' = TRUE
  /\ UNCHANGED <<bf_tzWest, bf_commodity, bf_buyDate, bf_current, bf_forecast, bf_history,
                 bf_histRuns, bf_histIssued, bf_timers, bf_clicks, bf_track>>
  /\ BFOnly

BF_SearchFail(s, msg) ==
  /\ bf_searches' = bf_searches \ {s}
  /\ bf_err' = msg
  /\ bf_loading' = FALSE
  /\ UNCHANGED <<bf_tzWest, bf_commodity, bf_buyDate, bf_current, bf_forecast, bf_history,
                 bf_histRuns, bf_histIssued, bf_timers, bf_clicks, bf_track>>
  /\ BFOnly

\* the Reset button
BF_Reset ==
  /\ bf_forecast' = Null
  /\ bf_current' = Null
  /\ bf_err' = Null
  /\ bf_track' = [bf_track EXCEPT !.reset = TRUE]
  /\ UNCHANGED <<bf_tzWest, bf_commodity, bf_buyDate, bf_history, bf_loading, bf_histRuns,
                 bf_histIssued, bf_searches, bf_timers, bf_clicks>>
  /\ BFOnly

BFNext ==
  \/ \E c \in SeqToSet(BFCommodities) : BF_SetCommodity(c)
  \/ \E r \in bf_histRuns : BF_HistoryOk(r)
  \/ \E r \in bf_histRuns : BF_HistoryFail(r)
  \/ \E d \in BFDates : BF_SetBuyDate(d)
  \/ BF_ClickSearch
  \/ \E d \in BFDates : BF_PickDate(d)
  \/ BF_TimerFire
  \/ \E s \in bf_searches : BF_SearchOk(s)
  \/ \E s \in bf_searches : \E msg \in {HttpError, NetworkError} : BF_SearchFail(s, msg)
  \/ BF_Reset

InitBF == BFInit /\ FDOff /\ CPOff /\ QHOff /\ POff /\ PROff /\ UAOff

SpecBF == InitBF /\ [][BFNext]_vars

----------------------------------------------------------------------------
(* Claims about BuyerForecast *)

\* the last price of the history of commodity c, region "All"
BFLastPrice(c) == Num(PriceOf(c, "All"))

\* C4: whenever current or forecast is non-null, it was produced by a search
\* issued for the currently selected commodity and computed from that
\* commodity's history.
C4_ShownBelongsToSelection ==
  /\ bf_current # Null => bf_current.price_sll = BFLastPrice(bf_commodity)
  /\ bf_forecast # Null =>
       /\ bf_forecast.last_known.price_sll = BFLastPrice(bf_commodity)
       /\ \E h \in HorizonSet :
            bf_forecast.predicted_price = HorizonBody(bf_commodity, h).kpi.pred[h]

----------------------------------------------------------------------------
(* Claims about the pure functions *)

\* C5: for every month distance m >= 0 the chosen horizon is a member of
\* [1, 3, 6] that minimizes |h - m|; of two equally near horizons the smaller
\* one is chosen; m = 2 resolves to 1.
C5_NearestHorizon ==
  (p_op = "nearest" /\ p_done)
  => /\ p_out.horizon \in {1, 3, 6}
     /\ \A h \in {1, 3, 6} :
          /\ Abs(p_out.horizon - p_in.m) <= Abs(h - p_in.m)
          /\ Abs(h - p_in.m) = Abs(p_out.horizon - p_in.m) => p_out.horizon <= h
     /\ p_in.m = 2 => p_out.horizon = 1

\* the tie at m = 2 has been resolved
C5_Witness == p_op = "nearest" /\ p_done /\ p_in.m = 2 /\ p_out.horizon = 1

\* the date string s comes first or is the same day
DateLeq(s, u) ==
  \/ s[1] < u[1]
  \/ s[1] = u[1] /\ s[2] < u[2]
  \/ s[1] = u[1] /\ s[2] = u[2] /\ s[3] <= u[3]

\* calendar month difference of two date strings, days ignored
CalendarMonths(s, u) == (u[1] - s[1]) * 12 + (u[2] - s[2])

\* C6: monthsBetween(lastKnownDate, targetDate) is the calendar month
\* difference (days ignored) clamped to at least 0, so for every target date
\* at or before the last known date m = 0 and the resolver returns 1.
C6_MonthsBetweenIsCalendarDifference ==
  (p_op = "search" /\ p_done)
  => /\ p_out.m = Max(0, CalendarMonths(p_in.last, p_in.target))
     /\ DateLeq(p_in.target, p_in.last) => (p_out.m = 0 /\ p_out.horizon = 1)

\* C7: pctChange(future, base) is (future - base) / base * 100 when both are
\* finite numbers and base is not 0, and null in every other case; it never
\* returns 0 for an undefined change.  pctChange(110, 100) = 10.
C7_PctChange ==
  (p_op = "pctChange" /\ p_done)
  => /\ IF p_in.future.t = "num" /\ p_in.base.t = "num" /\ p_in.base.v # 0
        THEN /\ p_out.t = "num"
             /\ p_out.v = (p_in.future.v - p_in.base.v) * 100
             /\ p_out.d = p_in.base.v
        ELSE p_out = Null
     /\ (p_in.future = Num(110) /\ p_in.base = Num(100)) => p_out.v = 10 * p_out.d

\* a change against base 0 has come out as null
C7_Witness ==
  /\ p_op = "pctChange" /\ p_done
  /\ p_in.future = Num(5) /\ p_in.base = Num(0)
  /\ p_out = Null

----------------------------------------------------------------------------
(* ForecastDashboard: the outcome of a selection *)

\* both requests of the latest batch have settled
FDSettled ==
  /\ fd_outcome.predict \in {"ok", "failed"}
  /\ fd_outcome.series \in {"ok", "failed"}

\* C11: whenever the /predict or the /series request of the current batch has
\* failed, the settled state has kpi fully null and history empty.
C11_AllOrNothing ==
  (FDSettled /\ (fd_outcome.predict = "failed" \/ fd_outcome.series = "failed"))
  => (fd_kpi = NullKpi /\ fd_history = <<>>)

----------------------------------------------------------------------------
(* The chart series: futurePoints / chartData / enriched of                 *)
(* ForecastDashboard, chartData / enrichedData of CustomerPlanner, series   *)
(* of BuyerForecast.  A row is a record with every key; Undef marks a key   *)
(* the row does not have.                                                   *)

\* d plus k months, the day kept
AddMonths(d, k) == <<d[1] + ((d[2] - 1 + k) \div 12), ((d[2] - 1 + k) % 12) + 1, d[3]>>

\* a date string is truthy unless it is empty
Truthy(d) == d # <<>>

\* futurePoints: one point per horizon whose prediction is not null and whose
\* target date is present, 1m, 3m, 6m in this order
futurePoints(kpi) ==
  (IF ~IsNullish(kpi.pred_1m) /\ Truthy(kpi.future_dates.m1)
   THEN <<[date |-> kpi.future_dates.m1, forecast |-> kpi.pred_1m]>> ELSE <<>>)
  \o (IF ~IsNullish(kpi.pred_3m) /\ Truthy(kpi.future_dates.m3)
      THEN <<[date |-> kpi.future_dates.m3, forecast |-> kpi.pred_3m]>> ELSE <<>>)
  \o (IF ~IsNullish(kpi.pred_6m) /\ Truthy(kpi.future_dates.m6)
      THEN <<[date |-> kpi.future_dates.m6, forecast |-> kpi.pred_6m]>> ELSE <<>>)

\* (p) => ({ date: p.date, actual: p.y, forecast: null })
FDHistRow(p) ==
  [date |-> p.date, actual |-> p.y, forecast |-> Null, lo |-> Undef, hi |-> Undef,
   ma3 |-> Undef, mom |-> Undef]

\* (p) => ({ date: p.date, actual: null, forecast: p.forecast }); copying the
\* forecast into actual as well would be a slip
FDFutRow_BothSet(p) ==
  [date |-> p.date, actual |-> p.forecast, forecast |-> p.forecast, lo |-> Undef,
   hi |-> Undef, ma3 |-> Undef, mom |-> Undef]

FDFutRow(p) ==
  [date |-> p.date, actual |-> Null, forecast |-> p.forecast, lo |-> Undef, hi |-> Undef,
   ma3 |-> Undef, mom |-> Undef]

\* (p) => ({ date: p.date, actual: p.y })
CPHistRow(p) ==
  [date |-> p.date, actual |-> p.y, forecast |-> Undef, lo |-> Undef, hi |-> Undef,
   ma3 |-> Undef, mom |-> Undef]

\* (p) => ({ date: p.date, forecast: p.yhat, lo: p.lo, hi: p.hi })
CPForeRow(p) ==
  [date |-> p.date, actual |-> Undef, forecast |-> p.yhat, lo |-> p.lo, hi |-> p.hi,
   ma3 |-> Undef, mom |-> Undef]

\* [...histRows, ...futRows]; the forecast rows first would be the other order
Concat_ForecastFirst(histRows, futRows) == futRows \o histRows

Concat(histRows, futRows) == histRows \o futRows

\* ForecastDashboard chartData
FDChartData(history, kpi) ==
  Concat([i \in 1..Len(history) |-> FDHistRow(history[i])],
         [i \in 1..Len(futurePoints(kpi)) |-> FDFutRow(futurePoints(kpi)[i])])

\* CustomerPlanner chartData: the history and bundle["6"]
CPChartData(hist, bundle) ==
  Concat([i \in 1..Len(hist) |-> CPHistRow(hist[i])],
         [i \in 1..Len(bundle[6]) |-> CPForeRow(bundle[6][i])])

\* d => ({ date: d.date, observed: d.price })
BFObsRow(d) ==
  [date |-> d.date, observed |-> d.price, forecast |-> Undef, lo |-> Undef, hi |-> Undef]

\* p => ({ date: p.date, forecast: p.predicted, lo: p.lo, hi: p.hi })
BFPathRow(p) ==
  [date |-> p.date, observed |-> Undef, forecast |-> p.predicted, lo |-> p.lo, hi |-> p.hi]

\* the row of the forecast's target date
BFTargetRow(f) ==
  [date |-> f.target_date, observed |-> Undef, forecast |-> f.predicted_price,
   lo |-> f.predicted_price, hi |-> f.predicted_price]

\* BuyerForecast series: [...obs, ...fc, ...(forecast ? [target row] : [])]
BFSeries(history, forecast) ==
  Concat([i \in 1..Len(history) |-> BFObsRow(history[i])],
         IF forecast = Null THEN <<>>
         ELSE [i \in 1..Len(forecast.path) |-> BFPathRow(forecast.path[i])]
                \o <<BFTargetRow(forecast)>>)

\* data.map(d => Number.isFinite(d.actual) ? d.actual : null)
ActualVals(data) ==
  [i \in 1..Len(data) |-> IF IsFinite(data[i].actual) THEN data[i].actual ELSE Null]

RECURSIVE SumFinite(_, _, _)
\* sum of the finite entries of vals[lo..hi]: filter, then reduce((a, b) => a + b, 0)
SumFinite(vals, lo, hi) ==
  IF lo > hi THEN 0
  ELSE (IF IsFinite(vals[lo]) THEN vals[lo].v ELSE 0) + SumFinite(vals, lo + 1, hi)

RECURSIVE CountFinite(_, _, _)
\* number of finite entries of vals[lo..hi]: the length of the filtered slice
CountFinite(vals, lo, hi) ==
  IF lo > hi THEN 0
  ELSE (IF IsFinite(vals[lo]) THEN 1 ELSE 0) + CountFinite(vals, lo + 1, hi)

\* the mean of a window: dividing by the window's length instead of the number
\* of finite values would be a slip
WindowMean_ByLength(vals, lo, hi) ==
  IF CountFinite(vals, lo, hi) > 0
  THEN Quot(SumFinite(vals, lo, hi), hi - lo + 1)
  ELSE Null

\* s.length ? s.reduce((a, b) => a + b, 0) / s.length : null
WindowMean(vals, lo, hi) ==
  IF CountFinite(vals, lo, hi) > 0
  THEN Quot(SumFinite(vals, lo, hi), CountFinite(vals, lo, hi))
  ELSE Null

\* movingAverage(arr, k): the window of index i is arr.slice(max(0, i - k + 1), i + 1)
movingAverage(arr, k) ==
  [i \in 1..Len(arr) |-> WindowMean(arr, Max(1, i - k + 1), i)]

\* the value compared by the change view: d.actual only would be a slip
RowValue_ActualOnly(d) == d.actual

\* d.actual ?? d.forecast
RowValue(d) == Coalesce(d.actual, d.forecast)

\* Number.isFinite(prev) && Number.isFinite(curr) ? curr - prev : null
MomOf(prev, curr) ==
  IF IsFinite(prev) /\ IsFinite(curr) THEN Num(curr.v - prev.v) ELSE Null

\* enriched / enrichedData: a copy of the rows, with ma3 when showMA and with
\* mom from the second row on when changeView
Enriched(data, showMA, changeView) ==
  [i \in 1..Len(data) |->
     [data[i] EXCEPT
        !.ma3 = IF showMA THEN movingAverage(ActualVals(data), 3)[i] ELSE Undef,
        !.mom = IF changeView /\ i > 1
                THEN MomOf(RowValue(data[i - 1]), RowValue(data[i]))
                ELSE Undef]]

\* number of history points of the charts checked
MaxHist == 3

\* prices of observed points
ObservedPrices == {Num(100), Num(106)}

\* histories: one point per month from 2024-01, in date order
Histories ==
  UNION {{[i \in 1..n |-> [date |-> <<2024, i, 1>>, y |-> ys[i]]] :
            ys \in [1..n -> ObservedPrices]} : n \in 0..MaxHist}

\* the date the service counts the horizons from
Anchors == {<<2023, 11, 1>>, <<2024, 3, 1>>}

\* the kpi states the charts are built from: each prediction is a number or
\* null, each target date is anchor + h months or missing
ChartKpis ==
  {[current_price |-> Null,
    pred_1m |-> v[1], pred_3m |-> v[3], pred_6m |-> v[6],
    pct_change_1m |-> Null, pct_change_3m |-> Null, pct_change_6m |-> Null,
    future_dates |-> [m1 |-> IF 1 \in has THEN AddMonths(a, 1) ELSE <<>>,
                      m3 |-> IF 3 \in has THEN AddMonths(a, 3) ELSE <<>>,
                      m6 |-> IF 6 \in has THEN AddMonths(a, 6) ELSE <<>>]] :
     v \in [HorizonSet -> {Num(103), Null}], has \in SUBSET HorizonSet, a \in Anchors}

\* the bundle states of the planner: per horizon no point or the one point
\* of its /predict request
ChartBundles ==
  {[h \in HorizonSet |->
      IF h \in has
      THEN <<[date |-> AddMonths(a, h), yhat |-> Num(103 + h), lo |-> Null, hi |-> Null]>>
      ELSE <<>>] : has \in SUBSET HorizonSet, a \in Anchors}

\* the forecast states of BuyerForecast
ChartForecasts ==
  {Null} \cup
  {[target_date |-> AddMonths(a, h), predicted_price |-> Num(103 + h),
    last_known |-> Null, path |-> <<>>] : h \in HorizonSet, a \in Anchors}

ChartInit ==
  /\ p_done = FALSE
  /\ p_out = <<>>
  /\ \/ /\ p_op = "chartFD"
        /\ p_in \in [history : Histories, kpi : ChartKpis,
                     showMA : BOOLEAN, changeView : BOOLEAN]
     \/ /\ p_op = "chartCP"
        /\ p_in \in [history : Histories, bundle : ChartBundles,
                     showMA : BOOLEAN, changeView : BOOLEAN]
     \/ /\ p_op = "seriesBF"
        /\ p_in \in [history : {BFHistoryOf(h) : h \in Histories},
                     forecast : ChartForecasts]

\* ForecastDashboard renders: enriched
CH_RenderFD ==
  /\ p_op = "chartFD"
  /\ ~p_done
  /\ p_done' = TRUE
  /\ p_out' = Enriched(FDChartData(p_in.history, p_in.kpi), p_in.showMA, p_in.changeView)
  /\ UNCHANGED <<p_op, p_in>>
  /\ POnly

\* CustomerPlanner renders: enrichedData
CH_RenderCP ==
  /\ p_op = "chartCP"
  /\ ~p_done
  /\ p_done' = TRUE
  /\ p_out' = Enriched(CPChartData(p_in.history, p_in.bundle), p_in.showMA, p_in.changeView)
  /\ UNCHANGED <<p_op, p_in>>
  /\ POnly

\* BuyerForecast renders: series
CH_RenderBF ==
  /\ p_op = "seriesBF"
  /\ ~p_done
  /\ p_done' = TRUE
  /\ p_out' = BFSeries(p_in.history, p_in.forecast)
  /\ UNCHANGED <<p_op, p_in>>
  /\ POnly

ChartNext == CH_RenderFD \/ CH_RenderCP \/ CH_RenderBF

InitChart == ChartInit /\ FDOff /\ CPOff /\ QHOff /\ BFOff /\ PROff /\ UAOff

SpecChart == InitChart /\ [][ChartNext]_vars

----------------------------------------------------------------------------
(* Claims about the chart series *)

ChartDone == p_done /\ p_op \in {"chartFD", "chartCP"}

\* the prediction and the target date the kpi holds for horizon h
KpiPred(kpi, h) == IF h = 1 THEN kpi.pred_1m ELSE IF h = 3 THEN kpi.pred_3m ELSE kpi.pred_6m

KpiDate(kpi, h) ==
  IF h = 1 THEN kpi.future_dates.m1 ELSE IF h = 3 THEN kpi.future_dates.m3
  ELSE kpi.future_dates.m6

KpiHasPoint(h) == ~IsNullish(KpiPred(p_in.kpi, h)) /\ KpiDate(p_in.kpi, h) # <<>>

\* the forecast points the component holds, horizon-ascending, as
\* <<date, price>> pairs
HeldForecastPoints ==
  IF p_op = "chartFD"
  THEN LET hs == SelectSeq(Horizons, KpiHasPoint)
       IN [j \in 1..Len(hs) |-> <<KpiDate(p_in.kpi, hs[j]), KpiPred(p_in.kpi, hs[j])>>]
  ELSE LET all == p_in.bundle[1] \o p_in.bundle[3] \o p_in.bundle[6]
       IN [j \in 1..Len(all) |-> <<all[j].date, all[j].yhat>>]

\* C12: the merged chart series is exactly the history rows in fetched order
\* followed by the forecast rows in horizon-ascending order (1m, 3m, 6m); its
\* length is the number of history points plus the number of forecast points.
C12_HistoryThenForecasts ==
  ChartDone =>
    /\ Len(p_out) = Len(p_in.history) + Len(HeldForecastPoints)
    /\ \A i \in 1..Len(p_in.history) :
         i <= Len(p_out) =>
           (p_out[i].date = p_in.history[i].date /\ p_out[i].actual = p_in.history[i].y)
    /\ \A j \in 1..Len(HeldForecastPoints) :
         Len(p_in.history) + j <= Len(p_out) =>
           /\ p_out[Len(p_in.history) + j].date = HeldForecastPoints[j][1]
           /\ p_out[Len(p_in.history) + j].forecast = HeldForecastPoints[j][2]

\* rows of the rendered series that come after the observed rows
ForecastRowIdx == (Len(p_in.history) + 1)..Len(p_out)

\* every forecast date is at or after the last observed date
ForecastsNotBeforeLastObserved ==
  Len(p_in.history) > 0 =>
    \A j \in ForecastRowIdx : DateLeq(p_in.history[Len(p_in.history)].date, p_out[j].date)

\* C13: when the forecast dates are all at or after the last observed date,
\* the merged series has non-decreasing dates end-to-end.
C13_DatesNonDecreasing ==
  (p_done /\ p_op \in {"chartFD", "chartCP", "seriesBF"} /\ ForecastsNotBeforeLastObserved)
  => \A i \in 1..(Len(p_out) - 1) : DateLeq(p_out[i].date, p_out[i + 1].date)

\* three observed rows followed by three later forecast rows
C13_Witness ==
  /\ p_done /\ p_op = "chartFD"
  /\ Len(p_in.history) = 3 /\ Len(p_out) = 6
  /\ ForecastsNotBeforeLastObserved
  /\ p_out[6].date = <<2024, 9, 1>>

Populated(x) == ~IsNullish(x)

FiniteWindow(i) == {j \in Max(1, i - 2)..i : p_out[j].actual.t = "num"}

RECURSIVE SumActual(_)
\* the sum of the actual values of the rows in S
SumActual(S) ==
  IF S = {} THEN 0
  ELSE LET j == CHOOSE k \in S : TRUE IN p_out[j].actual.v + SumActual(S \ {j})

\* C15: with the moving average on, ma3[i] is the mean of the finite actual
\* values among rows i-2..i; non-finite values count neither in the sum nor in
\* the denominator, a window without a finite value gives null; [100] gives
\* 100 at index 0 and [null, null] gives null at every index.
C15_MovingAverage ==
  (ChartDone /\ p_in.showMA) =>
    /\ \A i \in 1..Len(p_out) :
         IF FiniteWindow(i) = {}
         THEN p_out[i].ma3 = Null
         ELSE /\ p_out[i].ma3.t = "num"
              /\ p_out[i].ma3.d = Cardinality(FiniteWindow(i))
              /\ p_out[i].ma3.v = SumActual(FiniteWindow(i))
    /\ (Len(p_out) = 1 /\ p_out[1].actual = Num(100)) => p_out[1].ma3.v = 100 * p_out[1].ma3.d
    /\ (Len(p_out) = 2 /\ ~Populated(p_out[1].actual) /\ ~Populated(p_out[2].actual))
         => (p_out[1].ma3 = Null /\ p_out[2].ma3 = Null)

\* the window of the first forecast row holds two observed values and a null
C15_Witness ==
  /\ p_done /\ p_op = "chartFD" /\ p_in.showMA
  /\ Len(p_in.history) = 2 /\ Len(p_out) >= 3
  /\ p_out[3].ma3.t = "num" /\ p_out[3].ma3.d = 2
  /\ p_out[3].ma3.v = p_in.history[1].y.v + p_in.history[2].y.v

\* the row's actual when present, otherwise its forecast
ValueOf(row) == IF Populated(row.actual) THEN row.actual ELSE row.forecast

\* C16: with the change view on, for every row after the first
\* mom = value(current) - value(previous), null when either value is not
\* finite; the first row gets no mom; the first forecast row's mom is its
\* forecast minus the last observed actual.
C16_MonthOverMonth ==
  (ChartDone /\ p_in.changeView) =>
    /\ Len(p_out) >= 1 => p_out[1].mom = Undef
    /\ \A i \in 2..Len(p_out) :
         IF ValueOf(p_out[i]).t = "num" /\ ValueOf(p_out[i - 1]).t = "num"
         THEN p_out[i].mom = Num(ValueOf(p_out[i]).v - ValueOf(p_out[i - 1]).v)
         ELSE p_out[i].mom = Null
    /\ (Len(p_in.history) >= 1 /\ Len(p_out) > Len(p_in.history)) =>
         p_out[Len(p_in.history) + 1].mom =
           Num(p_out[Len(p_in.history) + 1].forecast.v - p_in.history[Len(p_in.history)].y.v)

\* the change across the observed-to-forecast boundary
C16_Witness ==
  /\ p_done /\ p_op = "chartFD" /\ p_in.changeView
  /\ Len(p_in.history) = 2 /\ Len(p_out) >= 3
  /\ p_in.history[2].y = Num(106)
  /\ p_out[3].mom = Num(-3)

----------------------------------------------------------------------------
(* ForecastDashboard: the commodity list *)

\* C17: if the list request fails, the commodity selector falls back to the
\* default list (Rice, Fish, Palm oil) and a commodity stays selected: once
\* the request has settled the selector holds the served list or the default
\* list, and the selected commodity is one of its entries.
C17_ListFallsBackToDefaults ==
  fd_optionsPc = "done" =>
    /\ fd_commodities \in {ServerCommodities, DefaultCommodities}
    /\ fd_commodity \in SeqToSet(fd_commodities)

----------------------------------------------------------------------------
(* ForecastDashboard: the persisted toggles *)

\* number of changes the user makes to the toggles
MaxToggles == 3

\* the options of the chart type select
ChartTypes == {"area", "line", "bar", "composed"}

\* what getItem returns for a key that was never set
NoItem == "(null)"

\* useState("area"), useState(false), useState(false)
DefaultPrefs == [chartType |-> "area", showMA |-> FALSE, changeView |-> FALSE]

\* flag ? "1" : "0"; writing the boolean's own text would not be read back
FlagText_Boolean(flag) == IF flag THEN "true" ELSE "false"

FlagText(flag) == IF flag THEN "1" ELSE "0"

\* the save effect: the three setItem calls with the values of its render
SaveItems(st) ==
  [chartType |-> st.chartType, showMA |-> FlagText(st.showMA),
   changeView |-> FlagText(st.changeView)]

\* the load effect: if (ct) setChartType(ct); setShowMA(... === "1");
\* setChangeView(... === "1")
LoadItems(items, st) ==
  [chartType |-> IF items.chartType \notin {NoItem, ""} THEN items.chartType
                 ELSE st.chartType,
   showMA |-> items.showMA = "1",
   changeView |-> items.changeView = "1"]

\* the storage an earlier session left
StoredByEarlierSession ==
  {SaveItems(st) : st \in [chartType : ChartTypes, showMA : BOOLEAN, changeView : BOOLEAN]}

\* the storage of a first visit
EmptyStorage == [chartType |-> NoItem, showMA |-> NoItem, changeView |-> NoItem]

PRInit ==
  /\ pr_pc = "mount"
  /\ pr_state = DefaultPrefs
  /\ pr_deps = DefaultPrefs
  /\ pr_storage \in StoredByEarlierSession \cup {EmptyStorage}
  /\ pr_session0 = pr_storage
  /\ pr_toggles = 0

\* the effects of the first render, in declaration order: load (its setState
\* calls take effect with the next render), then save with the values of the
\* first render
PR_MountEffects ==
  /\ pr_pc = "mount"
  /\ pr_pc' = "mounted"
  /\ pr_state' = LoadItems(pr_storage, pr_state)
  /\ pr_storage' = SaveItems(pr_state)
  /\ pr_deps' = pr_state
  /\ UNCHANGED <<pr_session0, pr_toggles>>
  /\ PROnly

\* a render whose chartType, showMA or changeView differ from those of the
\* save effect's last run: the save effect runs again
PR_SaveEffect ==
  /\ pr_pc = "mounted"
  /\ pr_state # pr_deps
  /\ pr_storage' = SaveItems(pr_state)
  /\ pr_deps' = pr_state
  /\ UNCHANGED <<pr_pc, pr_state, pr_session0, pr_toggles>>
  /\ PROnly

\* the chart type select's onChange
PR_SetChartType(ct) ==
  /\ pr_pc = "mounted"
  /\ pr_toggles < MaxToggles
  /\ ct # pr_state.chartType
  /\ pr_state' = [pr_state EXCEPT !.chartType = ct]
  /\ pr_toggles' = pr_toggles + 1
  /\ UNCHANGED <<pr_pc, pr_deps, pr_storage, pr_session0>>
  /\ PROnly

\* the moving-average checkbox's onChange
PR_SetShowMA ==
  /\ pr_pc = "mounted"
  /\ pr_toggles < MaxToggles
  /\ pr_state' = [pr_state EXCEPT !.showMA = ~pr_state.showMA]
  /\ pr_toggles' = pr_toggles + 1
  /\ UNCHANGED <<pr_pc, pr_deps, pr_storage, pr_session0>>
  /\ PROnly

\* the change-view checkbox's onChange
PR_SetChangeView ==
  /\ pr_pc = "mounted"
  /\ pr_toggles < MaxToggles
  /\ pr_state' = [pr_state EXCEPT !.changeView = ~pr_state.changeView]
  /\ pr_toggles' = pr_toggles + 1
  /\ UNCHANGED <<pr_pc, pr_deps, pr_storage, pr_session0>>
  /\ PROnly

PRNext ==
  \/ PR_MountEffects
  \/ PR_SaveEffect
  \/ \E ct \in ChartTypes : PR_SetChartType(ct)
  \/ PR_SetShowMA
  \/ PR_SetChangeView

InitPrefs == PRInit /\ FDOff /\ CPOff /\ QHOff /\ BFOff /\ POff /\ UAOff

SpecPrefs == InitPrefs /\ [][PRNext]_vars

----------------------------------------------------------------------------
(* Claims about the persisted toggles *)

\* the effects have run and no save is pending
PRSettled == pr_pc = "mounted" /\ pr_state = pr_deps

\* C18: if storage holds chartType, showMA and changeView written by an
\* earlier session, then after the mount effects have settled the state equals
\* the stored values and storage still holds them; afterwards, whenever the
\* save effect has run after a change, storage equals the state.
C18_PreferencesRoundTrip ==
  /\ (PRSettled /\ pr_toggles = 0 /\ pr_session0 \in StoredByEarlierSession) =>
       /\ pr_session0 = SaveItems(pr_state)
       /\ pr_state.chartType = pr_session0.chartType
       /\ pr_state.showMA = (pr_session0.showMA = "1")
       /\ pr_state.changeView = (pr_session0.changeView = "1")
       /\ pr_storage = pr_session0
  /\ PRSettled =>
       /\ pr_storage.chartType = pr_state.chartType
       /\ pr_storage.showMA = (IF pr_state.showMA THEN "1" ELSE "0")
       /\ pr_storage.changeView = (IF pr_state.changeView THEN "1" ELSE "0")

\* stored preferences other than the defaults have been read back and kept
C18_Witness ==
  /\ PRSettled /\ pr_toggles = 0
  /\ pr_session0 = [chartType |-> "line", showMA |-> "1", changeView |-> "0"]
  /\ pr_state = [chartType |-> "line", showMA |-> TRUE, changeView |-> FALSE]
  /\ pr_storage = pr_session0

----------------------------------------------------------------------------
(* One page at a time: ForecastDashboard, QuickHorizons or BuyerForecast    *)
(* is mounted and takes its steps.  The browser's time zone plays no part   *)
(* in which requests are issued; BuyerForecast runs in a zone at or east of *)
(* UTC here.                                                                *)

InitPage ==
  \/ FDInit /\ CPOff /\ QHOff /\ BFOff /\ POff /\ PROff /\ UAOff
  \/ QHInit /\ FDOff /\ CPOff /\ BFOff /\ POff /\ PROff /\ UAOff
  \/ BFInit /\ ~bf_tzWest /\ FDOff /\ CPOff /\ QHOff /\ POff /\ PROff /\ UAOff

\* number of history loads plus clicks followed on the BuyerForecast page
MaxPageActions == 4

PageNext ==
  \/ fd_optionsPc # "off" /\ FDNext
  \/ qh_variant # "off" /\ QHNext
  \/ bf_commodity # "" /\ BFNext /\ bf_histIssued' + bf_clicks' <= MaxPageActions

SpecPage == InitPage /\ [][PageNext]_vars

----------------------------------------------------------------------------
(* Claims about retries *)

\* ForecastDashboard: a batch goes from /predict to /series and never back; a
\* new batch appears only with a changed selection
FDNoReissue ==
  \A n \in fd_inflight' :
    \/ \E b \in fd_inflight :
         /\ b.reqId = n.reqId
         /\ (b.pc = "series" => n.pc = "series")
    \/ /\ n.reqId = latestReq + 1
       /\ n.pc = "predict"
       /\ (fd_commodity' # fd_commodity \/ fd_region' # fd_region)

\* QuickHorizons: a run goes from one request to the next and never back; a
\* new run appears only with a changed commodity
QHNoReissue ==
  \A n \in qh_runs' :
    \/ \E r \in qh_runs : r.id = n.id /\ n.stage \in {r.stage, r.stage + 1}
    \/ /\ n.id = qh_issued + 1
       /\ n.stage = 0
       /\ qh_commodity' # qh_commodity

\* BuyerForecast: a /predict request appears only with a click on Search or
\* with the timer of one click on Use this date; a /series request only with
\* a changed commodity
BFNoReissue ==
  /\ \A n \in bf_searches' :
       \/ n \in bf_searches
       \/ bf_clicks' = bf_clicks + 1
       \/ Len(bf_timers') = Len(bf_timers) - 1
  /\ Cardinality(bf_searches') <= Cardinality(bf_searches) + 1
  /\ Len(bf_timers') > Len(bf_timers) => bf_clicks' = bf_clicks + 1
  /\ \A n \in bf_histRuns' :
       \/ \E r \in bf_histRuns : r.id = n.id
       \/ bf_commodity' # bf_commodity

\* C19: a failed request is never retried automatically: every endpoint, and
\* every horizon of /predict, is requested at most once per selection or
\* search, and a new request is issued only after a new user action.
C19_NoAutomaticRetry == [][FDNoReissue /\ QHNoReissue /\ BFNoReissue]_vars

\* a search has failed and nothing is in flight or scheduled
C19_Witness ==
  /\ bf_clicks = 1
  /\ bf_err = HttpError
  /\ ~bf_loading
  /\ bf_searches = {}
  /\ bf_timers = <<>>

----------------------------------------------------------------------------
(* QuickHorizons: the percentage shown on a card *)

\* the truth value of x in a condition: 0, NaN, null and undefined are falsy;
\* other numbers, the infinities and the strings used here are truthy
JsTruthy(x) ==
  \/ x.t = "num" /\ x.v # 0
  \/ x.t \in {"inf", "string"}

\* the number an operand of - and / is converted to; the strings used here
\* are not numerals, undefined gives NaN, null gives 0
ToNumber(x) ==
  IF x.t \in {"string", "undefined"} THEN NaN
  ELSE IF x.t = "null" THEN Num(0)
  ELSE x

\* ((p - l) / l) * 100 for numbers p and l, l not 0: the exact quotient when
\* both are finite; NaN when one is NaN or l is infinite (p - l is then
\* infinite or NaN, and infinity / infinity is NaN); an infinity of the sign
\* of p times the sign of l when only p is infinite
PercentOf(p, l) ==
  IF p.t = "num" /\ l.t = "num" THEN Quot((p.v - l.v) * 100, l.v)
  ELSE IF p.t = "nan" \/ l.t # "num" THEN NaN
  ELSE IF (p.v > 0) = (l.v > 0) THEN PosInf ELSE NegInf

\* delta = (lastPrice && r.predicted_price != null)
\*           ? ((r.predicted_price - lastPrice) / lastPrice) * 100 : null
QHDelta(predicted_price, lastPrice) ==
  IF JsTruthy(lastPrice) /\ ~IsNullish(predicted_price)
  THEN PercentOf(ToNumber(predicted_price), ToNumber(lastPrice))
  ELSE Null

DeltaInit ==
  /\ p_op = "delta"
  /\ p_in \in [predicted_price : JsValues, lastPrice : JsValues]
  /\ p_done = FALSE
  /\ p_out = <<>>

\* a card is rendered: delta, next to what pctChange gives for the same values
QH_RenderCard ==
  /\ p_op = "delta"
  /\ ~p_done
  /\ p_done' = TRUE
  /\ p_out' = [delta |-> QHDelta(p_in.predicted_price, p_in.lastPrice),
               pct |-> pctChange(p_in.predicted_price, p_in.lastPrice)]
  /\ UNCHANGED <<p_op, p_in>>
  /\ POnly

InitDelta == DeltaInit /\ FDOff /\ CPOff /\ QHOff /\ BFOff /\ PROff /\ UAOff

SpecDelta == InitDelta /\ [][QH_RenderCard]_vars

\* C20: the percentage change shown on a QuickHorizons card agrees with
\* pctChange(predicted_price, lastPrice) for every input, and is null in
\* exactly the cases where pctChange returns null.
C20_DeltaAgreesWithPctChange ==
  (p_op = "delta" /\ p_done) =>
    /\ p_out.delta = p_out.pct
    /\ (p_out.delta = Null) = (p_out.pct = Null)

----------------------------------------------------------------------------
(* Claims about cancelled runs *)

\* a step taken by a QuickHorizons run whose effect was cleaned up
QHCancelledRunSteps == \E r \in qh_runs : ~r.alive /\ r \notin qh_runs'

\* a step taken by a run of BuyerForecast's history effect that was cleaned up
BFCancelledRunSteps == \E r \in bf_histRuns : ~r.alive /\ r \notin bf_histRuns'

\* the latest QuickHorizons run has ended and the component is mounted
QHLatestEnded == qh_mounted /\ qh_outcome.result \in {"ok", "failed"}

\* C21: after the commodity changes or the component unmounts, a run started
\* for the previous commodity never calls setRows, setMeta, setErr, setLoading
\* or setHistory, whatever the order in which its responses arrive; the run
\* for the latest commodity ends with loading false.
C21_CancelledRunsAreIgnored ==
  /\ [][/\ QHCancelledRunSteps => UNCHANGED <<qh_rows, qh_meta, qh_err, qh_loading>>
        /\ BFCancelledRunSteps => UNCHANGED bf_history]_vars
  /\ [](QHLatestEnded => ~qh_loading)

\* the latest run has ended while a cancelled run still awaits its last response
C21_Witness ==
  /\ QHLatestEnded
  /\ qh_issued >= 2
  /\ ~qh_loading
  /\ \E r \in qh_runs : ~r.alive /\ r.stage = Len(Horizons)

----------------------------------------------------------------------------
(* ForecastDashboard: kpi and history of one selection *)

\* the selections whose /predict body gives the kpi in state
FDKpiSelections ==
  {s \in SeqToSet(ServerCommodities) \X Regions : fd_kpi = KpiFrom(PredictBody(s[1], s[2]))}

\* the selections whose /series points are the history in state
FDHistorySelections ==
  {s \in SeqToSet(ServerCommodities) \X Regions : fd_history = SeriesPoints(s[1], s[2])}

\* C22: in every reachable state the kpi and the history held in state were
\* both fetched for the same (commodity, region) selection.
C22_KpiAndHistoryOfOneSelection ==
  (FDKpiSelections # {} /\ FDHistorySelections # {})
  => (FDKpiSelections \cap FDHistorySelections # {})

----------------------------------------------------------------------------
(* The horizon resolver of onSearch over any list of supported horizons *)

RECURSIVE ReduceOver(_, _, _, _)
\* cands.reduce(callback, best) over cands[i..]; the callback is not called
\* for an empty list
ReduceOver(cands, best, i, m) ==
  IF i > Len(cands) THEN best
  ELSE ReduceOver(cands, Num(Nearer(best.v, cands[i], m)), i + 1, m)

\* the lists of supported horizons tried
HorizonLists == {<<>>, <<1>>, <<3>>, <<6>>, <<1, 3>>, <<1, 6>>, <<3, 6>>, <<1, 3, 6>>}

\* cands[0]: undefined for an empty list
FirstOf(cands) == IF Len(cands) = 0 THEN Undef ELSE Num(cands[1])

\* cands.reduce((best, h) => ..., cands[0]) followed by the fetch of /predict:
\* reduce with an initial value throws for no list at all, and nothing between the
\* reduce and the fetch tests the horizon
ResolveHorizon(cands, m) ==
  [thrown |-> "none",
   horizon |-> ReduceOver(cands, FirstOf(cands), 1, m),
   requested |-> TRUE]

ResolverInit ==
  /\ p_op = "resolve"
  /\ p_in \in [cands : HorizonLists, m : 0..MaxMonths]
  /\ p_done = FALSE
  /\ p_out = <<>>

\* onSearch resolves the horizon for a date m months after the last observation
BF_ResolveHorizon ==
  /\ p_op = "resolve"
  /\ ~p_done
  /\ p_done' = TRUE
  /\ p_out' = ResolveHorizon(p_in.cands, p_in.m)
  /\ UNCHANGED <<p_op, p_in>>
  /\ POnly

InitResolver == ResolverInit /\ FDOff /\ CPOff /\ QHOff /\ BFOff /\ PROff /\ UAOff

SpecResolver == InitResolver /\ [][BF_ResolveHorizon]_vars

ResolverAgreesWithNearestHorizon ==
  (p_op = "resolve" /\ p_done /\ p_in.cands = candidates)
  => p_out.horizon = Num(NearestHorizon(p_in.m))

----------------------------------------------------------------------------
(* BuyerForecast: the search scheduled by "Use this date" *)

\* a step in which handlePickDate schedules onSearch
BFSchedules == Len(bf_timers') > Len(bf_timers)

\* C24: "Use this date" sets buyDate to the card's target date and the search
\* it schedules runs with that same date: the onSearch invoked by
\* handlePickDate never runs with the buyDate from before the click, and is
\* never skipped because the old buyDate was empty.
C24_PickedDateIsSearched ==
  [][BFSchedules => bf_timers'[Len(bf_timers')].buyDate = bf_buyDate']_vars

----------------------------------------------------------------------------
(* BuyerForecast: overlapping searches, Reset, failed searches *)

\* search s is the call of onSearch started last
BFStartedLast(s) == s.seq = bf_track.started

\* C25: when searches overlap, the displayed current and forecast are always
\* those of the most recently started search, and loading stays true until
\* every search in flight has settled.
C25_LatestSearchWins ==
  /\ [][\A s \in bf_searches : BF_SearchOk(s) => BFStartedLast(s)]_vars
  /\ [](bf_searches # {} => bf_loading)

\* C26: after Reset, forecast, current and err stay null until the user starts
\* a new search; a search that is in flight never repopulates them.
C26_ResetStays ==
  bf_track.reset => (bf_forecast = Null /\ bf_current = Null /\ bf_err = Null)


\* the step is a call of onSearch, with the values the call reads
BFCallsOnSearch(c, bd, hist) ==
  \/ /\ BF_ClickSearch
     /\ c = bf_commodity /\ bd = bf_buyDate /\ hist = bf_history
  \/ /\ BF_TimerFire
     /\ c = Head(bf_timers).commodity /\ bd = Head(bf_timers).buyDate
     /\ hist = Head(bf_timers).history

\* the values a call of onSearch may read
BFCallValues ==
  (SeqToSet(BFCommodities) \cup {""}) \X (BFDates \cup {<<>>})
    \X ({bf_history} \cup {t.history : t \in SeqToSet(bf_timers)})

\* onSearch with an empty commodity or buyDate changes no state
BFEmptyCallChangesNothing ==
  \A a \in BFCallValues :
    (BFCallsOnSearch(a[1], a[2], a[3]) /\ (a[1] = "" \/ a[2] = <<>>))
    => UNCHANGED <<bf_commodity, bf_buyDate, bf_current, bf_forecast, bf_history,
                   bf_loading, bf_err, bf_searches>>

\* onSearch without history sets err and issues no request
BFNoHistoryIsAnError ==
  \A a \in BFCallValues :
    (BFCallsOnSearch(a[1], a[2], a[3]) /\ a[1] # "" /\ a[2] # <<>> /\ a[3] = <<>>)
    => (bf_err' = NoHistoryYet /\ bf_searches' = bf_searches)

\* the step is the failure of a search
BFSearchFails ==
  \E s \in bf_searches : \E msg \in {HttpError, NetworkError} : BF_SearchFail(s, msg)

\* after a failed search nothing is displayed but the error
BFFailureShowsOnlyTheError ==
  (BFSearchFails \/ \E a \in BFCallValues :
      BFCallsOnSearch(a[1], a[2], a[3]) /\ a[1] # "" /\ a[2] # <<>> /\ a[3] = <<>>)
  => (bf_current' = Null /\ bf_forecast' = Null /\ bf_err' # Null /\ ~bf_loading')

\* the first part of C28 alone: an onSearch with nothing to search is a no-op
C28_EmptyCall == [][BFEmptyCallChangesNothing]_vars

\* the second part of C28 alone: no history, no request
C28_NoHistory == [][BFNoHistoryIsAnError]_vars

\* C28: onSearch returns without changing any state when commodity or buyDate
\* is empty; when history is empty it sets err to "No history available yet."
\* and issues no /predict request; after any failed search current and
\* forecast are both null, err is set and loading is false.
C28_SearchFailures ==
  [][BFEmptyCallChangesNothing /\ BFNoHistoryIsAnError /\ BFFailureShowsOnlyTheError]_vars

----------------------------------------------------------------------------
(* useApi, as ModelEval uses it for /metrics?commodity= and /eval?commodity= *)

\* the commodities of ModelEval's select
UACommodities == <<"Rice", "Fish", "Palm oil">>

\* the JSON body served for commodity c
UABody(c) == [commodity |-> c]

\* the effect body: setLoading(true); setError(null); fetch(url, {signal})
UARunEffect(c) ==
  /\ ua_loading' = TRUE
  /\ ua_error' = Null
  /\ ua_issued' = ua_issued + 1
  /\ ua_reqs' = {[r EXCEPT !.aborted = TRUE] : r \in ua_reqs}
                  \cup {[id |-> ua_issued + 1, commodity |-> c, aborted |-> FALSE]}

\* after the first render and its effect: useState(null), useState(true),
\* useState(null), and the first fetch in flight
UAInit ==
  /\ ua_commodity = UACommodities[1]
  /\ ua_data = Null
  /\ ua_loading = TRUE
  /\ ua_error = Null
  /\ ua_reqs = {[id |-> 1, commodity |-> UACommodities[1], aborted |-> FALSE]}
  /\ ua_issued = 1

\* setCommodity(c): deps change, the cleanup aborts the previous fetch and the
\* effect runs for the new url
UA_SetCommodity(c) ==
  /\ ua_commodity # "off"
  /\ c # ua_commodity
  /\ ua_issued < MaxReq
  /\ ua_commodity' = c
  /\ UARunEffect(c)
  /\ UNCHANGED ua_data
  /\ UAOnly

\* the fetch answered 200 with a JSON body: setData(j); finally setLoading(false)
UA_Ok(r) ==
  /\ r \in ua_reqs
  /\ ~r.aborted
  /\ ua_reqs' = ua_reqs \ {r}
  /\ ua_data' = UABody(r.commodity)
  /\ ua_loading' = FALSE
  /\ UNCHANGED <<ua_commodity, ua_error, ua_issued>>
  /\ UAOnly

\* the fetch answered non-OK or rejected with a network error:
\* setError(message); finally setLoading(false)
UA_Fail(r, msg) ==
  /\ r \in ua_reqs
  /\ ~r.aborted
  /\ ua_reqs' = ua_reqs \ {r}
  /\ ua_error' = msg
  /\ ua_loading' = FALSE
  /\ UNCHANGED <<ua_commodity, ua_data, ua_issued>>
  /\ UAOnly

\* the aborted fetch rejects with an AbortError: the catch block sets nothing,
\* finally setLoading(false)
UA_Aborted(r) ==
  /\ r \in ua_reqs
  /\ r.aborted
  /\ ua_reqs' = ua_reqs \ {r}
  /\ ua_loading' = FALSE
  /\ UNCHANGED <<ua_commodity, ua_data, ua_error, ua_issued>>
  /\ UAOnly

UANext ==
  \/ \E c \in SeqToSet(UACommodities) : UA_SetCommodity(c)
  \/ \E r \in ua_reqs : UA_Ok(r)
  \/ \E r \in ua_reqs : \E msg \in {HttpError, NetworkError} : UA_Fail(r, msg)
  \/ \E r \in ua_reqs : UA_Aborted(r)

InitUA == UAInit /\ FDOff /\ CPOff /\ QHOff /\ BFOff /\ POff /\ PROff

SpecUA == InitUA /\ [][UANext]_vars

\* the request for the current url is in flight
UAPending == \E r \in ua_reqs : ~r.aborted

\* the step is the settling of an aborted request
UAAbortedSettles == \E r \in ua_reqs : r.aborted /\ r \notin ua_reqs'

\* C27: loading is true in every state in which the request for the current
\* url is in flight: the finally block of the aborted previous request never
\* sets loading false while the new request is pending, and the aborted
\* request sets neither data nor error.
C27_LoadingWhilePending ==
  /\ [](UAPending => ua_loading)
  /\ [][UAAbortedSettles => UNCHANGED <<ua_data, ua_error>>]_vars
  /\ [][(UAAbortedSettles /\ UAPending) => UNCHANGED ua_loading]_vars

\* the last part of C27 alone: an aborted request sets neither data nor error
C27_AbortedSetsNoDataNoError ==
  [][UAAbortedSettles => UNCHANGED <<ua_data, ua_error>>]_vars

----------------------------------------------------------------------------
(* ModelEval: rows and filtered.  A text is a sequence of characters.       *)

MaxRows == 2

\* String.prototype.toLowerCase on one character, as the identity
LowerChar_Identity(ch) == ch

\* String.prototype.toLowerCase on one character of the texts used here
LowerChar(ch) == IF ch = "T" THEN "t" ELSE ch

\* text.toLowerCase()
ToLowerCase(text) == [i \in 1..Len(text) |-> LowerChar(text[i])]

\* text.includes(q)
Includes(text, q) ==
  \E i \in 0..(Len(text) - Len(q)) : SubSeq(text, i + 1, i + Len(q)) = q

\* a JSON array
Arr(items) == [t |-> "arr", v |-> items]

\* arr[i] of an array: undefined past its end
ItemAt(arr, i) == IF i <= Len(arr.v) THEN arr.v[i] ELSE Undef

\* Number.isFinite(x) ? Number(x) : null
FiniteOrNull(x) == IF IsFinite(x) THEN x ELSE Null

\* the row built for date d from y_test[i] and preds[i]
EvalRow(d, yi, pi) ==
  LET a == FiniteOrNull(yi)
      p == FiniteOrNull(pi)
      both == ~IsNullish(a) /\ ~IsNullish(p)
  IN  [date |-> d, actual |-> a, predicted |-> p,
       error |-> IF both THEN Num(p.v - a.v) ELSE Null,
       abs_error |-> IF both THEN Num(Abs(p.v - a.v)) ELSE Null]

\* evalset.preds?.[model] || []
PredsOfModel(evalset) == IF evalset.preds.model = Undef THEN Arr(<<>>) ELSE evalset.preds.model

\* rows
EvalRows(evalset) ==
  IF evalset = Null \/ evalset.dates = Undef \/ evalset.y_test = Undef \/ evalset.preds = Undef
  THEN <<>>
  ELSE [i \in 1..Len(evalset.dates.v) |->
          EvalRow(evalset.dates.v[i], ItemAt(evalset.y_test, i), ItemAt(PredsOfModel(evalset), i))]

\* the test of rows.filter
RowMatches(r, q) == Includes(ToLowerCase(r.date), q)

\* filtered
EvalFiltered(rows, query) ==
  IF query = <<>> THEN rows
  ELSE SelectSeq(rows, LAMBDA r : RowMatches(r, ToLowerCase(query)))

\* arrays of at most MaxRows items of S
ArraysOf(S) == {Arr(items) : items \in UNION {[1..n -> S] : n \in 0..MaxRows}}

\* evaluation dates as the service may write them
EvalDates == {<<"1", "T">>, <<"2", "1">>}

\* numbers and a numeral in a string
EvalValues == {Num(100), Num(98), Str(98)}

\* the body of /eval: null before it arrives or when it fails, and any key
\* may be missing; preds may lack the selected model
EvalSets ==
  {Null} \cup
  [dates : ArraysOf(EvalDates) \cup {Undef},
   y_test : ArraysOf(EvalValues) \cup {Undef},
   preds : [model : ArraysOf(EvalValues) \cup {Undef}] \cup {Undef}]

\* what the user types in the search box
Queries == {<<>>, <<"1">>, <<"T">>, <<"t">>, <<"2", "1">>, <<"1", "t">>}

EvalInit ==
  /\ p_op = "eval"
  /\ p_in \in [evalset : EvalSets, query : Queries]
  /\ p_done = FALSE
  /\ p_out = <<>>

\* ModelEval renders: rows, then filtered
ME_Render ==
  /\ p_op = "eval"
  /\ ~p_done
  /\ p_done' = TRUE
  /\ p_out' = [rows |-> EvalRows(p_in.evalset),
               filtered |-> EvalFiltered(EvalRows(p_in.evalset), p_in.query)]
  /\ UNCHANGED <<p_op, p_in>>
  /\ POnly

InitEval == EvalInit /\ FDOff /\ CPOff /\ QHOff /\ BFOff /\ PROff /\ UAOff

SpecEval == InitEval /\ [][ME_Render]_vars

EvalDone == p_op = "eval" /\ p_done

\* the evaluation set lists dates
EvalHasDates == p_in.evalset # Null /\ p_in.evalset.dates # Undef

\* the evaluation set has the three keys rows needs
EvalComplete ==
  /\ EvalHasDates
  /\ p_in.evalset.y_test # Undef
  /\ p_in.evalset.preds # Undef

\* one row per evaluation date, in the order of the dates
OneRowPerDate ==
  /\ Len(p_out.rows) = Len(p_in.evalset.dates.v)
  /\ \A i \in 1..Len(p_out.rows) : p_out.rows[i].date = p_in.evalset.dates.v[i]

\* the actual and the predicted value of row i as the service gave them;
\* undefined when there is none
GivenActual(i) ==
  IF i <= Len(p_in.evalset.y_test.v) THEN p_in.evalset.y_test.v[i] ELSE Undef

GivenPredicted(i) ==
  IF p_in.evalset.preds.model = Undef THEN Undef
  ELSE IF i <= Len(p_in.evalset.preds.model.v) THEN p_in.evalset.preds.model.v[i] ELSE Undef

\* error and abs_error of every row
ErrorsOfRows ==
  \A i \in 1..Len(p_out.rows) :
    LET r == p_out.rows[i]
    IN  IF GivenActual(i).t = "num" /\ GivenPredicted(i).t = "num"
        THEN /\ r.error = Num(GivenPredicted(i).v - GivenActual(i).v)
             /\ r.abs_error.t = "num" /\ r.abs_error.v >= 0
             /\ r.abs_error.v \in {r.error.v, 0 - r.error.v}
        ELSE r.error = Null /\ r.abs_error = Null

\* two characters that differ at most in letter case
SameLetter(a, b) == a = b \/ {a, b} = {"T", "t"}

\* text contains q when letter case is ignored
IncludesIgnoringCase(text, q) ==
  \E i \in 0..(Len(text) - Len(q)) : \A k \in 1..Len(q) : SameLetter(text[i + k], q[k])

\* the indices of the rows whose date contains the query
KeptLiteral == {i \in 1..Len(p_out.rows) : Includes(p_out.rows[i].date, p_in.query)}

KeptIgnoringCase ==
  {i \in 1..Len(p_out.rows) : IncludesIgnoringCase(p_out.rows[i].date, p_in.query)}

\* filtered is the subsequence of rows at the indices K, in order
FilteredIs(K) ==
  /\ Len(p_out.filtered) = Cardinality(K)
  /\ \A j \in 1..Len(p_out.filtered) :
       \E i \in K : /\ Cardinality({k \in K : k <= i}) = j
                    /\ p_out.filtered[j] = p_out.rows[i]

\* C29 as stated: ModelEval builds exactly one row per evaluation date, in
\* date order; error = predicted - actual and abs_error = |error| >= 0 when
\* both are finite, both null when either is missing or not finite; with an
\* empty query filtered = rows, otherwise filtered is the order-preserving
\* subsequence of the rows whose date contains the query.
C29_RowsAndFilter ==
  EvalDone =>
    /\ EvalHasDates => (OneRowPerDate /\ ErrorsOfRows)
    /\ IF p_in.query = <<>> THEN p_out.filtered = p_out.rows ELSE FilteredIs(KeptLiteral)

\* C29, amended: when the evaluation set has dates, y_test and preds, rows has
\* exactly one row per evaluation date in the order of the dates, with error
\* and abs_error as stated; when one of the three is missing there are no
\* rows; with an empty query filtered = rows, otherwise filtered is the
\* order-preserving subsequence of the rows whose date contains the query
\* when letter case is ignored on both sides.
C29_RowsAndFilter_Amended ==
  EvalDone =>
    /\ IF EvalComplete THEN OneRowPerDate /\ ErrorsOfRows ELSE p_out.rows = <<>>
    /\ IF p_in.query = <<>> THEN p_out.filtered = p_out.rows ELSE FilteredIs(KeptIgnoringCase)

\* two rows, one with a finite error and one without, filtered by a query
\* that differs from the date in letter case only
C29_Witness ==
  /\ EvalDone
  /\ p_in.evalset # Null
  /\ p_in.evalset.dates = Arr(<<<<"1", "T">>, <<"2", "1">>>>)
  /\ p_in.evalset.y_test = Arr(<<Num(100)>>)
  /\ p_in.evalset.preds # Undef
  /\ p_in.evalset.preds.model = Arr(<<Num(98), Num(100)>>)
  /\ p_in.query = <<"1", "t">>
  /\ Len(p_out.filtered) = 1
  /\ p_out.filtered[1].error = Num(-2)
  /\ p_out.rows[2].error = Null

====
